---- MODULE Spec2Model ----
(***************************************************************************)
(* Test-Start-MCP: the policy-gated execution gateway.                     *)
(*                                                                         *)
(* The model follows server/app.py (preflight token, session-preflight     *)
(* cache, execution gate, run_script / check_script handlers),             *)
(* server/policy_store.py (policy document, load_state, evaluate_preflight,*)
(* effective_caps_for) and server/policy.py (validate_and_prepare).        *)
(*                                                                         *)
(* Conventions                                                             *)
(*   - a path is a sequence of segments; Resolve is Path.resolve() on a    *)
(*     filesystem without symlinks; PathStr is str(Path).                  *)
(*   - Python None and the empty string are both falsy where the code      *)
(*     tests `not x` / `x or y`; they are modelled by "" (NoSession) and   *)
(*     by <<>> (NoToken).                                                  *)
(*   - the wall clock `now` is in milliseconds; time.time() * 1000 is now, *)
(*     int(time.time()) is now \div 1000.                                  *)
(*   - SHA-256 and HMAC-SHA256 are ideal: injective constructors.          *)
(***************************************************************************)
EXTENDS Integers, Sequences, FiniteSets, TLC

VARIABLES
    now,        \* wall clock, milliseconds
    enforce,    \* TSM_REQUIRE_PREFLIGHT in ('1','true','yes')
    file,       \* content of the policy file TSM_ALLOWED_FILE
    prefCache,  \* _pref_cache: set of [key, t] (a dict: one t per key)
    held,       \* the preflight token the client kept (NoToken if none)
    phase,      \* "idle" | "done" (a request has been answered)
    req,        \* the request that was served
    resp,       \* the answer to req
    loaded,     \* result of the last load_state on `file`
    pure,       \* input and result of the last call of a pure function
    minted,     \* number of identifiers uuid4() has produced so far
    stream,     \* the run of stream_process: its position, the child, the events
    inflight,   \* requests whose handler is suspended at `await request.json()`
    client,     \* progress of one client through check_script then run_script
    servers     \* the server instances: TSM_PREFLIGHT_SECRET and _PREFLIGHT_SECRET of each

vars == <<now, enforce, file, prefCache, held, phase, req, resp, loaded, pure, minted, stream,
         inflight, client, servers>>

-----------------------------------------------------------------------------
(* Bounds of the model *)

\* number of clock ticks a behaviour may take
MaxTick == 3
\* milliseconds per clock tick
TickMs == 700
\* TSM_PREFLIGHT_TTL_SEC used by the model (the code's default is 600)
TtlSec == 1

-----------------------------------------------------------------------------
(* Sequences helpers *)

Min(a, b) == IF a <= b THEN a ELSE b

IsPrefix(s, t) == Len(s) <= Len(t) /\ SubSeq(t, 1, Len(s)) = s

RECURSIVE JoinStr(_, _)
\* sep.join(xs) for a sequence of strings
JoinStr(xs, sep) ==
    IF xs = <<>> THEN ""
    ELSE IF Len(xs) = 1 THEN xs[1]
    ELSE xs[1] \o sep \o JoinStr(Tail(xs), sep)

SeqToSet(s) == {s[i] : i \in 1..Len(s)}

-----------------------------------------------------------------------------
(* Paths and the filesystem *)

RECURSIVE ResolveFrom(_, _)
ResolveFrom(acc, rest) ==
    IF rest = <<>> THEN acc
    ELSE IF Head(rest) = "." THEN ResolveFrom(acc, Tail(rest))
    ELSE IF Head(rest) = ".."
         THEN ResolveFrom(IF acc = <<>> THEN acc ELSE SubSeq(acc, 1, Len(acc) - 1), Tail(rest))
    ELSE ResolveFrom(Append(acc, Head(rest)), Tail(rest))

\* Path(p).resolve() for an absolute path, no symlinks
Resolve(p) == ResolveFrom(<<>>, p)

\* str(path)
PathStr(p) == IF p = <<>> THEN "/" ELSE "/" \o JoinStr(p, "/")

\* policy_store._is_under_root / policy._is_under_root
_is_under_root(p, root) == IsPrefix(Resolve(root), Resolve(p))

ScriptA == <<"srv", "A", "run.py">>
ScriptB == <<"srv", "B", "run.py">>
AliasA  == <<"srv", "B", "..", "A", "run.py">>
GoneA   == <<"srv", "A", "gone.py">>
Outside == <<"etc", "x.sh">>

\* regular files that exist on the host
Files == {ScriptA, ScriptB, Outside}

\* p.exists() and p.is_file(): the OS resolves the path
IsFile(p) == Resolve(p) \in Files

\* TSM_ALLOWED_ROOT
AllowedRoot == <<"srv">>

\* TSM_ALLOWED_SCRIPTS, as split by _split_env_list
AllowedScripts == {PathStr(ScriptA), PathStr(ScriptB)}

\* TSM_ALLOWED_ARGS: colon/semicolon separated parts, each a list of
\* comma separated items
AllowedArgsEnv == << <<"--smoke">> >>

\* policy._split_env_list: splits on ':' and ';' only, and drops empty parts
_split_env_list(env) == {JoinStr(env[i], ",") : i \in 1..Len(env)} \ {""}

\* the flag strings of the model in the order of Python's str comparison
FlagOrder == <<"--", "--bad", "--host", "--port", "--smoke", "--smoke,--port">>

\* sorted(list(S)) for a set of flag strings
Sorted(S) == SelectSeq(FlagOrder, LAMBDA f : f \in S)

\* policy.list_allowed_scripts: one entry per allowed script, each carrying
\* the sorted allowed flags
list_allowed_scripts(env) == [p \in AllowedScripts |-> Sorted(_split_env_list(env))]

\* app.py check_script: splits on ':' ';' and ','
FlagsGlobal(env) == UNION {SeqToSet(env[i]) : i \in 1..Len(env)}

-----------------------------------------------------------------------------
(* Policy data (policy_store.py dataclasses) *)

NoSession == ""

\* Optional[Caps] = None
NoCaps == [nocaps |-> TRUE]

\* Caps(...) with the dataclass defaults for omitted fields
Caps(t, b, l, c) == [maxTimeoutMs |-> t, maxBytes |-> b, maxStdoutLines |-> l, concurrency |-> c]

DefaultMaxTimeoutMs == 90000
DefaultMaxBytes == 262144
DefaultMaxStdoutLines == 1500
DefaultConcurrency == 2

DefaultCaps == Caps(DefaultMaxTimeoutMs, DefaultMaxBytes, DefaultMaxStdoutLines, DefaultConcurrency)

\* an expiresAt value as stored: absent/null, an ISO-8601 instant (ms), or
\* a string datetime.fromisoformat rejects
NoExpiry == [t |-> "none", at |-> 0]
IsoAt(ms) == [t |-> "iso", at |-> ms]
BadIso == [t |-> "bad", at |-> 0]

\* policy_store._parse_iso: None for a falsy or unparseable string
_parse_iso(s) ==
    IF s.t = "iso" THEN [some |-> TRUE, at |-> s.at]
    ELSE [some |-> FALSE, at |-> 0]

\* PolicyState()
PolicyState0 == [version |-> 1, rules |-> <<>>, overlays |-> <<>>, profiles |-> <<>>]

NoRule == [norule |-> TRUE]

-----------------------------------------------------------------------------
(* The policy document as JSON *)

\* a JSON value read with int(d.get(k, default))
JAbsent == [t |-> "absent", v |-> 0]
JInt(v) == [t |-> "int", v |-> v]
JNumStr(v) == [t |-> "numstr", v |-> v]
JBad == [t |-> "bad", v |-> 0]

\* int(x) raises ValueError / TypeError
IntRaises(j) == j.t = "bad"
IntOf(j, default) == IF j.t = "absent" THEN default ELSE j.v

\* a "caps" member: absent/null/{} (falsy), an object, or a truthy non-object
CapsAbsent == [shape |-> "absent"]
CapsObj(t, b, l, c) ==
    [shape |-> "obj", maxTimeoutMs |-> t, maxBytes |-> b, maxStdoutLines |-> l, concurrency |-> c]
CapsBad == [shape |-> "bad"]

\* policy_store._to_caps
_to_caps_raises(d) ==
    \/ d.shape = "bad"
    \/ /\ d.shape = "obj"
       /\ \/ IntRaises(d.maxTimeoutMs) \/ IntRaises(d.maxBytes)
          \/ IntRaises(d.maxStdoutLines) \/ IntRaises(d.concurrency)

_to_caps(d) ==
    IF d.shape # "obj" THEN NoCaps
    ELSE Caps(IntOf(d.maxTimeoutMs, DefaultMaxTimeoutMs), IntOf(d.maxBytes, DefaultMaxBytes),
              IntOf(d.maxStdoutLines, DefaultMaxStdoutLines), IntOf(d.concurrency, DefaultConcurrency))

\* a member of "rules": a JSON object (obj) or another JSON value
RuleJ(id, type, path, scopeRoot, patterns, fa, fd, cj, exp) ==
    [obj |-> TRUE, id |-> id, type |-> type, path |-> path, scopeRoot |-> scopeRoot,
     patterns |-> patterns, flagsAllowed |-> fa, flagsDenied |-> fd, caps |-> cj, expiresAt |-> exp]
NotAnObject == [obj |-> FALSE]

\* a member of "overlays": keys is the set of member names present
OverlayJ(keys, sid, prof, exp) ==
    [obj |-> TRUE, keys |-> keys, sessionId |-> sid, profile |-> prof, expiresAt |-> exp]

\* an overlay as the admin API and the tests write it: with the selector
\* members path, scopeRoot, patterns and the bookkeeping members id, createdAt
OverlaySelJ(sid, prof, exp, path, scopeRoot, patterns) ==
    [obj |-> TRUE,
     keys |-> {"sessionId", "profile", "expiresAt", "path", "scopeRoot", "patterns", "id", "createdAt"},
     sessionId |-> sid, profile |-> prof, expiresAt |-> exp,
     path |-> path, scopeRoot |-> scopeRoot, patterns |-> patterns]

\* an overlay stored with an id, as the admin pages list and remove it
OverlayIdJ(id, sid, prof, exp, scopeRoot, patterns) ==
    [obj |-> TRUE,
     keys |-> {"id", "sessionId", "profile", "expiresAt", "scopeRoot", "patterns"},
     id |-> id, sessionId |-> sid, profile |-> prof, expiresAt |-> exp,
     scopeRoot |-> scopeRoot, patterns |-> patterns]

\* the fields of the Overlay dataclass
OverlayFields == {"sessionId", "profile", "expiresAt"}
OverlayRequired == {"sessionId", "profile"}

\* Overlay(**o) raises TypeError: not a mapping, an unexpected keyword, or
\* a missing required field
OverlayRaises(o) ==
    \/ ~o.obj
    \/ ~(o.keys \subseteq OverlayFields)
    \/ ~(OverlayRequired \subseteq o.keys)

Overlay(o) ==
    [sessionId |-> o.sessionId, profile |-> o.profile,
     expiresAt |-> IF "expiresAt" \in o.keys THEN o.expiresAt ELSE NoExpiry]

\* a member of "profiles"
ProfileJ(cj, fa) == [obj |-> TRUE, caps |-> cj, flagsAllowed |-> fa]

\* a collection member of the document: shape is "absent", "null", "list"
\* (a JSON array of items), "obj" (a JSON object: items are <<name, value>>
\* pairs) or "string" (a non-empty string)
Coll(shape, items) == [shape |-> shape, items |-> items]

MissingFile == [kind |-> "missing"]
GarbageFile == [kind |-> "garbage"]
\* a JSON text whose top-level value is not an object
NonObjectJson == [kind |-> "json", top |-> "array"]
Doc(version, rules, overlays, profiles) ==
    [kind |-> "json", top |-> "object", version |-> version,
     rules |-> rules, overlays |-> overlays, profiles |-> profiles]

\* for r in raw.get('rules', []): Rule(id=str(r.get('id','')), ...)
RulesRaise(c) ==
    \/ c.shape \in {"null", "string"}
    \/ c.shape = "obj" /\ c.items # <<>>
    \/ /\ c.shape = "list"
       /\ \E i \in 1..Len(c.items) : ~c.items[i].obj \/ _to_caps_raises(c.items[i].caps)

\* [Overlay(**o) for o in raw.get('overlays', [])]
OverlaysRaise(c) ==
    \/ c.shape \in {"null", "string"}
    \/ c.shape = "obj" /\ c.items # <<>>
    \/ /\ c.shape = "list"
       /\ \E i \in 1..Len(c.items) : OverlayRaises(c.items[i])

\* for name, p in (raw.get('profiles') or {}).items(): Profile(...)
ProfilesRaise(c) ==
    \/ c.shape = "string"
    \/ c.shape = "list" /\ c.items # <<>>
    \/ /\ c.shape = "obj"
       /\ \E i \in 1..Len(c.items) : ~c.items[i][2].obj \/ _to_caps_raises(c.items[i][2].caps)

\* the members the loops visit when nothing raises
CollItems(c) == IF c.shape \in {"list", "obj"} THEN c.items ELSE <<>>

LoadRule(r) ==
    [id |-> r.id, type |-> r.type, path |-> r.path, scopeRoot |-> r.scopeRoot,
     patterns |-> r.patterns, flagsAllowed |-> r.flagsAllowed, flagsDenied |-> r.flagsDenied,
     caps |-> _to_caps(r.caps), expiresAt |-> r.expiresAt]

LoadProfile(p) ==
    [caps |-> IF _to_caps(p.caps) = NoCaps THEN DefaultCaps ELSE _to_caps(p.caps),
     flagsAllowed |-> p.flagsAllowed]

\* the body of load_state's try block raises
LoadRaises(f) ==
    \/ f.kind = "garbage"
    \/ /\ f.kind = "json"
       /\ \/ f.top # "object"
          \/ RulesRaise(f.rules)
          \/ OverlaysRaise(f.overlays)
          \/ ProfilesRaise(f.profiles)
          \/ IntRaises(f.version)

\* the value the try block returns when nothing raises
LoadBody(f) ==
    IF f.kind = "missing" THEN PolicyState0
    ELSE [version |-> IntOf(f.version, 1),
          rules |-> [i \in 1..Len(CollItems(f.rules)) |-> LoadRule(CollItems(f.rules)[i])],
          overlays |-> [i \in 1..Len(CollItems(f.overlays)) |-> Overlay(CollItems(f.overlays)[i])],
          profiles |-> [i \in 1..Len(CollItems(f.profiles)) |->
                          <<CollItems(f.profiles)[i][1], LoadProfile(CollItems(f.profiles)[i][2])>>]]

\* load_state catching only the JSON decoding error
load_state_OnlyJsonError(f) ==
    IF f.kind = "garbage" THEN [raised |-> FALSE, state |-> PolicyState0]
    ELSE IF LoadRaises(f) THEN [raised |-> TRUE, state |-> PolicyState0]
    ELSE [raised |-> FALSE, state |-> LoadBody(f)]

\* load_state: [raised, state]; `except Exception: return PolicyState()`
load_state(f) ==
    IF LoadRaises(f) THEN [raised |-> FALSE, state |-> PolicyState0]
    ELSE [raised |-> FALSE, state |-> LoadBody(f)]

\* json.dumps(data) raises TypeError: a rule's __dict__ holds its caps as a
\* Caps object, which json cannot serialise
SaveRaises(st) == \E i \in 1..Len(st.rules) : st.rules[i].caps # NoCaps

\* a rule as save_state writes it: r.__dict__, caps null
SavedRule(r) ==
    RuleJ(r.id, r.type, r.path, r.scopeRoot, r.patterns, r.flagsAllowed, r.flagsDenied, CapsAbsent, r.expiresAt)

\* an overlay as save_state writes it: o.__dict__
SavedOverlay(o) == OverlayJ(OverlayFields, o.sessionId, o.profile, o.expiresAt)

\* a profile as save_state writes it: caps.__dict__ and flagsAllowed
SavedProfile(pf) ==
    ProfileJ(CapsObj(JInt(pf.caps.maxTimeoutMs), JInt(pf.caps.maxBytes),
                     JInt(pf.caps.maxStdoutLines), JInt(pf.caps.concurrency)),
             pf.flagsAllowed)

\* the document save_state builds from st
SavedDoc(st) ==
    Doc(JInt(st.version),
        Coll("list", [i \in 1..Len(st.rules) |-> SavedRule(st.rules[i])]),
        Coll("list", [i \in 1..Len(st.overlays) |-> SavedOverlay(st.overlays[i])]),
        Coll("obj", [i \in 1..Len(st.profiles) |-> <<st.profiles[i][1], SavedProfile(st.profiles[i][2])>>]))

\* save_state(fp, st) on a file holding f: the file afterwards; an error is
\* swallowed (`except Exception: pass`) and the file keeps its content
save_state(f, st) == IF SaveRaises(st) THEN f ELSE SavedDoc(st)

-----------------------------------------------------------------------------
(* Matching: rules, overlays, fnmatch *)

\* tokens of the model's argument alphabet for which tok.startswith('--')
DashTokens == {"--", "--smoke", "--bad", "--port", "--host", "--smoke,--port"}
StartsWithDashes(tok) == tok \in DashTokens

\* the characters of one path segment, in chunks no pattern splits
SegAtoms(seg) == IF seg = "run.py" THEN <<"run", ".py">> ELSE <<seg>>

RECURSIVE RelAtoms(_)
\* str(p.relative_to(root)) as a string of atoms; "." for the root itself
RelAtoms(rel) ==
    IF rel = <<>> THEN <<".">>
    ELSE IF Len(rel) = 1 THEN SegAtoms(rel[1])
    ELSE SegAtoms(rel[1]) \o <<"/">> \o RelAtoms(Tail(rel))

RECURSIVE FnMatch(_, _)
\* fnmatch.fnmatch(name, pat): '*' is '.*' (it matches '/' too), '?' is one
\* character, anything else is literal; the whole name must match
FnMatch(name, pat) ==
    IF pat = <<>> THEN name = <<>>
    ELSE IF Head(pat) = "*"
         THEN \E k \in 0..Len(name) : FnMatch(SubSeq(name, k + 1, Len(name)), Tail(pat))
    ELSE IF Head(pat) = "?"
         THEN name # <<>> /\ Len(Head(name)) = 1 /\ FnMatch(Tail(name), Tail(pat))
    ELSE name # <<>> /\ Head(name) = Head(pat) /\ FnMatch(Tail(name), Tail(pat))

\* the loop that keeps the last hit instead of breaking at the first
FirstIndex_Last(hits) ==
    IF \E i \in 1..Len(hits) : hits[i]
    THEN CHOOSE i \in 1..Len(hits) : hits[i] /\ \A j \in (i + 1)..Len(hits) : ~hits[j]
    ELSE 0

\* index of the first TRUE in the sequence of booleans hits (one per element
\* of the list a loop walks, in order: the loop breaks there), 0 if none
FirstIndex(hits) ==
    IF \E i \in 1..Len(hits) : hits[i]
    THEN CHOOSE i \in 1..Len(hits) : hits[i] /\ \A j \in 1..(i - 1) : ~hits[j]
    ELSE 0

\* rule_valid that never finds a rule expired
rule_valid_Always(r, t) == TRUE

\* evaluate_preflight.rule_valid / the expiry test of effective_caps_for
rule_valid(r, t) == ~_parse_iso(r.expiresAt).some \/ _parse_iso(r.expiresAt).at > t

\* the selector test of a rule against the resolved path p
RuleSelects(r, p) ==
    IF r.type = "path" /\ r.path # <<>> THEN Resolve(r.path) = p
    ELSE IF r.type = "scope" /\ r.scopeRoot # <<>> /\ r.patterns # <<>>
         THEN /\ _is_under_root(p, r.scopeRoot)
              /\ \E i \in 1..Len(r.patterns) :
                    FnMatch(RelAtoms(SubSeq(p, Len(Resolve(r.scopeRoot)) + 1, Len(p))), r.patterns[i])
    ELSE FALSE

RuleMatches(r, p, t) == rule_valid(r, t) /\ RuleSelects(r, p)

\* s[i], or none when i = 0
ItemAt(s, i, none) == IF i = 0 THEN none ELSE s[i]

\* the rule loop of evaluate_preflight / effective_caps_for: first match
MatchedRule(st, p, t) ==
    ItemAt(st.rules, FirstIndex([i \in 1..Len(st.rules) |-> RuleMatches(st.rules[i], p, t)]), NoRule)

NoOverlay == [nooverlay |-> TRUE]

\* the overlay test without the expiry check
OverlayApplies_NoExpiry(o, session_id, t) ==
    session_id # NoSession /\ o.sessionId = session_id

\* the overlay loop: the first overlay of the session that has not expired
OverlayApplies(o, session_id, t) ==
    /\ session_id # NoSession
    /\ o.sessionId = session_id
    /\ (~_parse_iso(o.expiresAt).some \/ _parse_iso(o.expiresAt).at > t)

SessionOverlay(st, session_id, t) ==
    ItemAt(st.overlays, FirstIndex([i \in 1..Len(st.overlays) |-> OverlayApplies(st.overlays[i], session_id, t)]), NoOverlay)

NoProfile == [noprofile |-> TRUE]

\* st.profiles.get(name)
ProfileGet(st, name) ==
    ItemAt(st.profiles, FirstIndex([i \in 1..Len(st.profiles) |-> st.profiles[i][1] = name]), <<name, NoProfile>>)[2]

\* state.profiles.get(ov.profile) for the overlay found (None without one)
OverlayProfile(st, overlay) ==
    IF overlay = NoOverlay THEN NoProfile ELSE ProfileGet(st, overlay.profile)

-----------------------------------------------------------------------------
(* policy_store.evaluate_preflight *)

\* the overlay profile narrows the global flags when it lists any
FlagsAfterOverlay(prof, flags_global) ==
    IF prof # NoProfile /\ prof.flagsAllowed # <<>>
    THEN flags_global \cap SeqToSet(prof.flagsAllowed)
    ELSE flags_global

\* the matched rule narrows by flagsAllowed
FlagsAfterAllowed(rule, flags) ==
    IF rule # NoRule /\ rule.flagsAllowed # <<>>
    THEN flags \cap SeqToSet(rule.flagsAllowed)
    ELSE flags

\* the merge without the subtraction of flagsDenied
FlagsAfterDenied_Skip(rule, flags) == flags

\* flagsDenied of the matched rule is subtracted last
FlagsAfterDenied(rule, flags) ==
    IF rule # NoRule /\ rule.flagsDenied # <<>>
    THEN flags \ SeqToSet(rule.flagsDenied)
    ELSE flags

FlagsAfterRule(rule, flags) == FlagsAfterDenied(rule, FlagsAfterAllowed(rule, flags))

EffectiveAllowedFlags(p, session_id, flags_global, st, t) ==
    FlagsAfterRule(MatchedRule(st, p, t),
                   FlagsAfterOverlay(OverlayProfile(st, SessionOverlay(st, session_id, t)), flags_global))

\* the boundary check that stops at the first reason
BoundaryReasons_FirstOnly(p, allowed_root) ==
    IF ~_is_under_root(p, allowed_root) THEN <<"outside_allowed_root">>
    ELSE IF ~IsFile(p) THEN <<"path_not_found">> ELSE <<>>

\* the root and existence reasons
BoundaryReasons(p, allowed_root) ==
    (IF ~_is_under_root(p, allowed_root) THEN <<"outside_allowed_root">> ELSE <<>>)
    \o (IF ~IsFile(p) THEN <<"path_not_found">> ELSE <<>>)

\* bad_flags: the flag tokens of args outside the effective allowed set
BadFlags(args, eff) == SelectSeq(args, LAMBDA a : StartsWithDashes(a) /\ a \notin eff)

\* evaluate_preflight without the disallowed_flags reason
FlagReasons_Silent(bad_flags) == <<>>

FlagReasons(bad_flags) ==
    IF bad_flags # <<>> THEN <<"disallowed_flags: " \o JoinStr(bad_flags, ",")>> ELSE <<>>

PreflightResult(p, reasons, matched) ==
    [allowed |-> reasons = <<>>,
     matchedRule |-> matched,
     reasons |-> reasons,
     suggestions |-> << [type |-> "scope", value |-> PathStr(SubSeq(p, 1, Len(p) - 1))],
                        [type |-> "pattern", value |-> IF p = <<>> THEN "" ELSE p[Len(p)]] >>]

EvaluateResolved(p, args, session_id, allowed_root, flags_global, st, t) ==
    PreflightResult(p,
                    BoundaryReasons(p, allowed_root)
                        \o FlagReasons(BadFlags(args, EffectiveAllowedFlags(p, session_id, flags_global, st, t))),
                    MatchedRule(st, p, t))

evaluate_preflight(path, args, session_id, allowed_root, flags_global, st, t) ==
    EvaluateResolved(Resolve(path), args, session_id, allowed_root, flags_global, st, t)

-----------------------------------------------------------------------------
(* policy_store.effective_caps_for *)

\* min_or(a, b, default) on the caps that are present, then `or 1` for
\* concurrency
min_or(overlay_caps, rule_caps, field) ==
    IF overlay_caps = NoCaps THEN rule_caps[field]
    ELSE IF rule_caps = NoCaps THEN overlay_caps[field]
    ELSE Min(overlay_caps[field], rule_caps[field])

\* `x or 1`
OrOne(x) == IF x = 0 THEN 1 ELSE x

MergeCaps(overlay_caps, rule_caps) ==
    Caps(min_or(overlay_caps, rule_caps, "maxTimeoutMs"),
         min_or(overlay_caps, rule_caps, "maxBytes"),
         min_or(overlay_caps, rule_caps, "maxStdoutLines"),
         OrOne(min_or(overlay_caps, rule_caps, "concurrency")))

\* overlay_caps: the caps of the overlay's profile
OverlayCaps(prof) == IF prof = NoProfile THEN NoCaps ELSE prof.caps

\* rule_caps: the caps of the matched rule
RuleCaps(matched) == IF matched = NoRule THEN NoCaps ELSE matched.caps

CombineCaps(overlay_caps, rule_caps) ==
    IF overlay_caps = NoCaps /\ rule_caps = NoCaps THEN NoCaps
    ELSE MergeCaps(overlay_caps, rule_caps)

\* the overlay loop of effective_caps_for: it breaks at the first overlay of
\* the session with no expiry or one after now
CapsOverlayIndex(st, session_id, t) ==
    IF session_id = NoSession THEN 0
    ELSE FirstIndex([i \in 1..Len(st.overlays) |->
                        /\ st.overlays[i].sessionId = session_id
                        /\ \/ ~_parse_iso(st.overlays[i].expiresAt).some
                           \/ _parse_iso(st.overlays[i].expiresAt).at > t])

CapsOverlay(st, session_id, t) == ItemAt(st.overlays, CapsOverlayIndex(st, session_id, t), NoOverlay)

\* the rule loop of effective_caps_for, taking the last match
CapsMatched_Last(st, p, t) ==
    ItemAt(st.rules,
           FirstIndex_Last([i \in 1..Len(st.rules) |->
               /\ ~(_parse_iso(st.rules[i].expiresAt).some /\ _parse_iso(st.rules[i].expiresAt).at <= t)
               /\ RuleSelects(st.rules[i], p)]),
           NoRule)

\* the expiry test of effective_caps_for's rule loop: the rule is skipped
CapsRuleExpired(r, t) == _parse_iso(r.expiresAt).some /\ _parse_iso(r.expiresAt).at <= t

\* the two selector tests of effective_caps_for's rule loop
CapsRuleSelects(r, p) ==
    \/ r.type = "path" /\ r.path # <<>> /\ Resolve(r.path) = p
    \/ /\ r.type = "scope" /\ r.scopeRoot # <<>> /\ r.patterns # <<>>
       /\ _is_under_root(p, r.scopeRoot)
       /\ \E i \in 1..Len(r.patterns) :
             FnMatch(RelAtoms(SubSeq(p, Len(Resolve(r.scopeRoot)) + 1, Len(p))), r.patterns[i])

\* matched: the rule at which effective_caps_for's rule loop breaks
CapsMatched(st, p, t) ==
    ItemAt(st.rules,
           FirstIndex([i \in 1..Len(st.rules) |->
               ~CapsRuleExpired(st.rules[i], t) /\ CapsRuleSelects(st.rules[i], p)]),
           NoRule)

CapsResolved(p, session_id, allowed_root, st, t) ==
    IF ~_is_under_root(p, allowed_root) THEN NoCaps
    ELSE CombineCaps(OverlayCaps(OverlayProfile(st, CapsOverlay(st, session_id, t))),
                     RuleCaps(CapsMatched(st, p, t)))

effective_caps_for(path, session_id, allowed_root, st, t) ==
    CapsResolved(Resolve(path), session_id, allowed_root, st, t)

-----------------------------------------------------------------------------
(* Preflight token (app.py) *)

NoToken == <<>>

\* the server's signing secret (_get_secret) and a key it does not hold
ServerSecret == "k_server"
OtherSecret == "k_other"

\* json.dumps(list(args), separators=(',', ':')) for strings without
\* characters JSON escapes
JsonDumpsList(args) ==
    "[" \o JoinStr([i \in 1..Len(args) |-> "\"" \o args[i] \o "\""], ",") \o "]"

\* _args_hash: base64url(sha256(json))
_args_hash(args) == [sha256 |-> JsonDumpsList(args)]

\* _normalize_path
_normalize_path(path) == PathStr(Resolve(path))

\* _now_ts: int(time.time())
_now_ts(t) == t \div 1000

\* _b64url_json(obj): a token segment that decodes to obj
B64Json(obj) == [b64 |-> "json", obj |-> obj]
\* a segment that is not the base64url of a JSON object
B64Junk == [b64 |-> "junk"]

\* base64url(hmac.new(key, head + '.' + payload, sha256).digest())
Hmac(key, head_b64, payl_b64) == [hmac |-> key, head |-> head_b64, payl |-> payl_b64]

TokenHeader == [alg |-> "HS256", typ |-> "JWT"]

TokenPayload(p, ah, iat, exp) == [p |-> p, ah |-> ah, iat |-> iat, exp |-> exp, v |-> 1]

\* the token string: its '.'-separated segments
SignedToken(key, head_b64, payl_b64) == <<head_b64, payl_b64, Hmac(key, head_b64, payl_b64)>>

\* make_preflight_token that forgets to add the TTL to iat
make_preflight_token_NoTtl(path, args, t, ttl) ==
    [preflightToken |-> SignedToken(ServerSecret, B64Json(TokenHeader),
                                    B64Json(TokenPayload(_normalize_path(path), _args_hash(args),
                                                         _now_ts(t), _now_ts(t)))),
     expiresAt |-> IsoAt(_now_ts(t) * 1000)]

\* make_preflight_token(path, args) at time t with TTL ttl seconds, signed
\* with the key that _get_secret() returned
make_preflight_token_by(key, path, args, t, ttl) ==
    LET iat == _now_ts(t)
        exp == iat + ttl
    IN [preflightToken |-> SignedToken(key, B64Json(TokenHeader),
                                       B64Json(TokenPayload(_normalize_path(path), _args_hash(args), iat, exp))),
        expiresAt |-> IsoAt(exp * 1000)]

\* make_preflight_token on the instance whose secret is ServerSecret
make_preflight_token(path, args, t, ttl) == make_preflight_token_by(ServerSecret, path, args, t, ttl)

VerifyOk == [ok |-> TRUE, reason |-> ""]
VerifyFail(reason) == [ok |-> FALSE, reason |-> reason]

\* verify_preflight_token without the comparison of the signature
verify_preflight_token_NoSig(token, path, args, t) ==
    IF token = NoToken THEN VerifyFail("missing")
    ELSE IF Len(token) # 3 THEN VerifyFail("invalid")
    ELSE IF token[2].b64 # "json" THEN VerifyFail("invalid")
    ELSE IF _now_ts(t) > token[2].obj.exp THEN VerifyFail("expired")
    ELSE IF _normalize_path(path) # token[2].obj.p THEN VerifyFail("mismatch")
    ELSE IF _args_hash(args) # token[2].obj.ah THEN VerifyFail("mismatch")
    ELSE VerifyOk

\* verify_preflight_token without the comparison of the args hash
verify_preflight_token_NoArgs(token, path, args, t) ==
    IF token = NoToken THEN VerifyFail("missing")
    ELSE IF Len(token) # 3 THEN VerifyFail("invalid")
    ELSE IF Hmac(ServerSecret, token[1], token[2]) # token[3] THEN VerifyFail("invalid")
    ELSE IF token[2].b64 # "json" THEN VerifyFail("invalid")
    ELSE IF _now_ts(t) > token[2].obj.exp THEN VerifyFail("expired")
    ELSE IF _normalize_path(path) # token[2].obj.p THEN VerifyFail("mismatch")
    ELSE VerifyOk

\* verify_preflight_token(token, path, args) at time t, with the key that
\* _get_secret() returned
verify_preflight_token_by(key, token, path, args, t) ==
    IF token = NoToken THEN VerifyFail("missing")
    ELSE IF Len(token) # 3 THEN VerifyFail("invalid")
    ELSE IF Hmac(key, token[1], token[2]) # token[3] THEN VerifyFail("invalid")
    ELSE IF token[2].b64 # "json" THEN VerifyFail("invalid")
    ELSE IF _now_ts(t) > token[2].obj.exp THEN VerifyFail("expired")
    ELSE IF _normalize_path(path) # token[2].obj.p THEN VerifyFail("mismatch")
    ELSE IF _args_hash(args) # token[2].obj.ah THEN VerifyFail("mismatch")
    ELSE VerifyOk

\* verify_preflight_token on the instance whose secret is ServerSecret
verify_preflight_token(token, path, args, t) ==
    verify_preflight_token_by(ServerSecret, token, path, args, t)

-----------------------------------------------------------------------------
(* Session-preflight cache (app.py) *)

\* stands for the separator character U+0001
SOH == "<01>"

\* _pref_key: None ("") without a session
_pref_key(sess, path, args) ==
    IF sess = NoSession THEN ""
    ELSE sess \o ":::" \o PathStr(Resolve(path)) \o ":::" \o JoinStr(args, SOH)

\* _require_pref_ok: "" for None, else the message of the E_POLICY error
\* RequirePrefKey without the age test of the cache entry
RequirePrefKey_NoAge(cache, enf, k, t, ttl) ==
    IF ~enf THEN ""
    ELSE IF k = "" THEN "preflight_required: missing sessionId (X-TSM-Session)"
    ELSE IF k \notin DOMAIN cache THEN "preflight_required"
    ELSE ""

\* RequirePrefKey that finds the entry expired at age TTL already
RequirePrefKey_Early(cache, enf, k, t, ttl) ==
    IF ~enf THEN ""
    ELSE IF k = "" THEN "preflight_required: missing sessionId (X-TSM-Session)"
    ELSE IF k \notin DOMAIN cache THEN "preflight_required"
    ELSE IF t - cache[k] >= ttl * 1000 THEN "preflight_expired"
    ELSE ""

RequirePrefKey(cache, enf, k, t, ttl) ==
    IF ~enf THEN ""
    ELSE IF k = "" THEN "preflight_required: missing sessionId (X-TSM-Session)"
    ELSE IF k \notin DOMAIN cache THEN "preflight_required"
    ELSE IF t - cache[k] > ttl * 1000 THEN "preflight_expired"
    ELSE ""

_require_pref_ok(cache, enf, session_id, path, args, t, ttl) ==
    RequirePrefKey(cache, enf, _pref_key(session_id, path, args), t, ttl)

\* _record_pref: the cache afterwards
RecordPrefKey(cache, k, t) ==
    IF k = "" THEN cache
    ELSE [x \in DOMAIN cache \cup {k} |-> IF x = k THEN t ELSE cache[x]]

\* _record_pref keeping no other entry than the one it writes
_record_pref_Only(cache, session_id, path, args, t) ==
    IF _pref_key(session_id, path, args) = "" THEN cache
    ELSE [x \in {_pref_key(session_id, path, args)} |-> t]

_record_pref(cache, session_id, path, args, t) ==
    RecordPrefKey(cache, _pref_key(session_id, path, args), t)

GatePass == [denied |-> FALSE, error |-> "", message |-> ""]

\* the session taken from the header even when the request names one
GateSession_HeaderFirst(header_session, override_session_id) ==
    IF header_session # NoSession THEN header_session ELSE override_session_id

\* _enforce_preflight: None (GatePass) or the E_POLICY error
\* override_session_id or request.headers.get('X-TSM-Session')
GateSession(header_session, override_session_id) ==
    IF override_session_id # NoSession THEN override_session_id ELSE header_session

\* the decision once the token verdict v and the cache verdict err_pref
\* are known
GateDecision(enf, preflight_token, v, err_pref) ==
    IF ~enf THEN GatePass
    ELSE IF v.ok THEN GatePass
    ELSE IF err_pref = "" THEN GatePass
    ELSE [denied |-> TRUE, error |-> "E_POLICY",
          message |-> "preflight_required: " \o (IF preflight_token # NoToken THEN v.reason ELSE err_pref)]

\* _enforce_preflight reading the enforcement switch as always on
_enforce_preflight_AlwaysOn(cache, enf, header_session, path, args, preflight_token, override_session_id, t, ttl) ==
    GateDecision(TRUE, preflight_token,
                 verify_preflight_token(preflight_token, path, args, t),
                 _require_pref_ok(cache, TRUE, GateSession(header_session, override_session_id),
                                  path, args, t, ttl))

_enforce_preflight(cache, enf, header_session, path, args, preflight_token, override_session_id, t, ttl) ==
    GateDecision(enf, preflight_token,
                 verify_preflight_token(preflight_token, path, args, t),
                 _require_pref_ok(cache, enf, GateSession(header_session, override_session_id),
                                  path, args, t, ttl))

-----------------------------------------------------------------------------
(* Execution preparation (policy.py) *)

\* flags that take a value
ValueFlags == {"--host", "--port", "--default-code-root", "--logs-root", "--home"}

\* tokens of the model's argument alphabet for which str.isdigit() holds
DigitTokens == {"8080"}

RECURSIVE ValidateFrom_Separator(_, _, _)
ValidateFrom_Separator(args, i, allowed) ==
    IF i > Len(args) THEN ""
    ELSE IF args[i] = "--" THEN ""
    ELSE IF StartsWithDashes(args[i])
         THEN IF args[i] \notin allowed THEN "flag not allowed: " \o args[i]
              ELSE IF args[i] \in ValueFlags
                   THEN IF i + 1 > Len(args) THEN "missing value for " \o args[i]
                        ELSE IF args[i] = "--port" /\ args[i + 1] \notin DigitTokens
                             THEN "port must be integer"
                        ELSE ValidateFrom_Separator(args, i + 2, allowed)
              ELSE ValidateFrom_Separator(args, i + 1, allowed)
    ELSE "positional not allowed: " \o args[i]

RECURSIVE ValidateFrom(_, _, _)
\* the loop of _validate_args from index i: "" when it returns (True, None),
\* else the message of the E_BAD_ARG error
ValidateFrom(args, i, allowed) ==
    IF i > Len(args) THEN ""
    ELSE IF StartsWithDashes(args[i])
         THEN IF args[i] \notin allowed THEN "flag not allowed: " \o args[i]
              ELSE IF args[i] \in ValueFlags
                   THEN IF i + 1 > Len(args) THEN "missing value for " \o args[i]
                        ELSE IF args[i] = "--port" /\ args[i + 1] \notin DigitTokens
                             THEN "port must be integer"
                        ELSE ValidateFrom(args, i + 2, allowed)
              ELSE ValidateFrom(args, i + 1, allowed)
    ELSE IF args[i] = "--" THEN ValidateFrom(args, i + 1, allowed)
    ELSE "positional not allowed: " \o args[i]

\* _validate_args when TSM_ALLOWED_ARGS holds env
_validate_args_env(args, env) == ValidateFrom(args, 1, _split_env_list(env))

_validate_args(args) == _validate_args_env(args, AllowedArgsEnv)

\* TSM_TIMEOUT_MS_DEFAULT and TSM_MAX_OUTPUT_BYTES defaults
TimeoutMsDefault == 90000
MaxOutputBytes == 262144

\* Optional[int] timeout_ms of a request
NoTimeout == [some |-> FALSE, v |-> 0]
TimeoutMs(v) == [some |-> TRUE, v |-> v]

PrepError(code, message) ==
    [ok |-> FALSE, code |-> code, message |-> message, timeout_ms |-> 0, max_output_bytes |-> 0]

\* str(Path(path)): '.' segments collapse, '..' stays
PurePathStr(path) == LET NotDot(x) == x # "." IN PathStr(SelectSeq(path, NotDot))

\* validate_and_prepare (TSM_ALLOWED_ROOT is set)
validate_and_prepare(path, args, timeout_ms) ==
    IF ~_is_under_root(path, AllowedRoot) THEN PrepError("E_FORBIDDEN", "path not under allowed root")
    ELSE IF ~IsFile(path) THEN PrepError("E_BAD_ARG", "path does not exist")
    ELSE IF PurePathStr(path) \notin AllowedScripts THEN PrepError("E_FORBIDDEN", "script not in allowlist")
    ELSE IF _validate_args(args) # "" THEN PrepError("E_BAD_ARG", _validate_args(args))
    ELSE [ok |-> TRUE, code |-> "", message |-> "",
          timeout_ms |-> IF timeout_ms.some THEN timeout_ms.v ELSE TimeoutMsDefault,
          max_output_bytes |-> MaxOutputBytes]

\* the clamp of run_script: prep.timeout_ms and prep.max_output_bytes after
\* effective_caps_for on the freshly loaded policy
\* the clamp written as an assignment of the cap instead of a minimum
ClampWith_Assign(prep, caps_eff) ==
    IF caps_eff = NoCaps THEN prep
    ELSE [prep EXCEPT !.timeout_ms = caps_eff.maxTimeoutMs,
                      !.max_output_bytes = caps_eff.maxBytes]

ClampWith(prep, caps_eff) ==
    IF caps_eff = NoCaps THEN prep
    ELSE [prep EXCEPT !.timeout_ms = Min(@, caps_eff.maxTimeoutMs),
                      !.max_output_bytes = Min(@, caps_eff.maxBytes)]

ClampToCaps(prep, path, sess_eff, f, t) ==
    ClampWith(prep, effective_caps_for(path, sess_eff, AllowedRoot, load_state(f).state, t))

-----------------------------------------------------------------------------
(* Requests and answers *)

\* a request: op "run" | "check"; via "rest" | "sse" | "mcp"; sessH is the
\* X-TSM-Session header, sessB the sessionId of the body / query / tool
\* arguments
Request(op, via, path, args, token, sessH, sessB, timeout_ms) ==
    [op |-> op, via |-> via, path |-> path, args |-> args, token |-> token,
     sessH |-> sessH, sessB |-> sessB, timeout_ms |-> timeout_ms]

NoReq == Request("none", "none", <<>>, <<>>, NoToken, NoSession, NoSession, NoTimeout)

\* an answer: HTTP status, error code and message, whether the gate let the
\* request through, whether validate_and_prepare and the process runner were
\* reached, the limits handed to the runner, and check_script's result
Answer(status, error, message, gate, validated, ran, prep, allowed, token) ==
    [status |-> status, error |-> error, message |-> message, gate |-> gate,
     validated |-> validated, ran |-> ran,
     timeout_ms |-> prep.timeout_ms, max_output_bytes |-> prep.max_output_bytes,
     allowed |-> allowed, preflightToken |-> token]

NoPrep == [timeout_ms |-> 0, max_output_bytes |-> 0]

NoResp == Answer(0, "", "", "none", FALSE, FALSE, NoPrep, FALSE, NoToken)

\* body.get('sessionId') or request.headers.get('X-TSM-Session')
SessionOf(r) == IF r.sessB # NoSession THEN r.sessB ELSE r.sessH

\* /sse/run_script_stream: the args query parameter parsed (a JSON array)
ParsedArgs(r) == r.args

\* run_script after the gate: validate_and_prepare, clamp, run
\* the answer once prep is known: an error of validate_and_prepare, or the
\* run with the clamped limits
RunPrepared(r, prep, f, t, badStatus) ==
    IF ~prep.ok
    THEN Answer(IF badStatus = 0 THEN 200 ELSE IF prep.code = "E_FORBIDDEN" THEN 403 ELSE badStatus,
                prep.code, prep.message, "pass", TRUE, FALSE, NoPrep, FALSE, NoToken)
    ELSE Answer(200, "", "", "pass", TRUE, TRUE, ClampToCaps(prep, r.path, SessionOf(r), f, t),
                FALSE, NoToken)

RunAfterGate(r, args, f, t, badStatus) ==
    RunPrepared(r, validate_and_prepare(r.path, args, r.timeout_ms), f, t, badStatus)

\* the gate's error answered with denyStatus, else the answer `passed`
GateAnswer(err_pref, denyStatus, passed) ==
    IF err_pref.denied
    THEN Answer(denyStatus, err_pref.error, err_pref.message, "deny", FALSE, FALSE, NoPrep, FALSE, NoToken)
    ELSE passed

\* http_run_script that evaluates the policy again and refuses what it no
\* longer allows
http_run_script_Recheck(r, cache, enf, f, t) ==
    IF ~evaluate_preflight(r.path, r.args, SessionOf(r), AllowedRoot, FlagsGlobal(AllowedArgsEnv),
                           load_state(f).state, t).allowed
    THEN Answer(428, "E_POLICY", "preflight_required: policy", "deny", FALSE, FALSE, NoPrep, FALSE, NoToken)
    ELSE GateAnswer(_enforce_preflight(cache, enf, r.sessH, r.path, r.args, r.token, r.sessB, t, TtlSec),
                    428, RunAfterGate(r, r.args, f, t, 400))

\* POST /actions/run_script
http_run_script(r, cache, enf, f, t) ==
    GateAnswer(_enforce_preflight(cache, enf, r.sessH, r.path, r.args, r.token, r.sessB, t, TtlSec),
               428, RunAfterGate(r, r.args, f, t, 400))

\* GET /sse/run_script_stream
http_run_script_stream(r, cache, enf, f, t) ==
    GateAnswer(_enforce_preflight(cache, enf, r.sessH, r.path, ParsedArgs(r), r.token, r.sessB, t, TtlSec),
               428, RunAfterGate(r, ParsedArgs(r), f, t, 400))

\* POST /mcp tools/call run_script: errors travel in a 200 JSON-RPC result
mcp_run_script(r, cache, enf, f, t) ==
    GateAnswer(_enforce_preflight(cache, enf, r.sessH, r.path, r.args, r.token, r.sessB, t, TtlSec),
               200, RunAfterGate(r, r.args, f, t, 0))

\* the global flag list check_script builds from TSM_ALLOWED_ARGS
flags_global == FlagsGlobal(AllowedArgsEnv)

\* POST /actions/check_script: the answer and the session cache afterwards
\* CheckOutcome recording the session preflight whatever the evaluation
CheckOutcome_AlwaysRecord(r, cache, ev, t) ==
    [answer |-> Answer(200, "", "", "none", FALSE, FALSE, NoPrep, ev.allowed,
                       IF ev.allowed
                       THEN make_preflight_token(r.path, r.args, t, TtlSec).preflightToken
                       ELSE NoToken),
     cache |-> _record_pref(cache, SessionOf(r), r.path, r.args, t)]

CheckOutcome(r, cache, ev, t) ==
    [answer |-> Answer(200, "", "", "none", FALSE, FALSE, NoPrep, ev.allowed,
                       IF ev.allowed
                       THEN make_preflight_token(r.path, r.args, t, TtlSec).preflightToken
                       ELSE NoToken),
     cache |-> IF ev.allowed THEN _record_pref(cache, SessionOf(r), r.path, r.args, t) ELSE cache]

http_check_script(r, cache, f, t) ==
    CheckOutcome(r, cache,
                 evaluate_preflight(r.path, r.args, SessionOf(r), AllowedRoot, flags_global,
                                    load_state(f).state, t),
                 t)

\* POST /mcp tools/call check_script
mcp_check_script(r, cache, f, t) ==
    CheckOutcome(r, cache,
                 evaluate_preflight(r.path, r.args, SessionOf(r), AllowedRoot, flags_global,
                                    load_state(f).state, t),
                 t)

\* no script has been started by stream_process
NoStream == [pc |-> "none"]

-----------------------------------------------------------------------------
(* The gateway as a state machine *)

\* the seeded policy document: profile "tiny", assigned to session s1
\* until 1500 ms
TinyCaps == CapsObj(JInt(50), JInt(65536), JInt(200), JInt(1))

SeedDoc ==
    Doc(JInt(1), Coll("list", <<>>),
        Coll("list", <<OverlayJ(OverlayFields, "s1", "tiny", IsoAt(1500))>>),
        Coll("obj", << <<"tiny", ProfileJ(TinyCaps, <<"--smoke">>)>> >>))

\* a token the client forges from one it holds: expiry pushed out, signed
\* with a key that is not the server's
Forged(token) ==
    SignedToken(OtherSecret, token[1],
                B64Json([token[2].obj EXCEPT !.exp = @ + 1000]))

ClientTokens(h) == IF h = NoToken THEN {NoToken} ELSE {NoToken, h, Forged(h)}

RunPaths == {ScriptA, GoneA}
RunArgs == {<<>>, <<"--smoke">>}
CheckPaths == {ScriptA, AliasA}
CheckArgs == {<<>>, <<"--smoke">>, <<"--bad">>}
\* <<header session, body session>>
RunSessions == {<<NoSession, NoSession>>, <<"s1", NoSession>>, <<"s1", "s2">>}
CheckSessions == {<<NoSession, NoSession>>, <<"s1", NoSession>>}

RunRequests(h) ==
    {Request("run", via, p, a, k, s[1], s[2], NoTimeout) :
        via \in {"rest", "sse", "mcp"}, p \in RunPaths, a \in RunArgs,
        k \in ClientTokens(h), s \in RunSessions}

CheckRequests ==
    {Request("check", via, p, a, NoToken, s[1], s[2], NoTimeout) :
        via \in {"rest", "mcp"}, p \in CheckPaths, a \in CheckArgs, s \in CheckSessions}

NoPure == [fn |-> "none"]

\* the observed client has sent nothing yet
NoClient == [stage |-> "start"]

\* no server instance besides the one the requests go to
NoServers == <<>>

Init ==
    /\ now = 0
    /\ enforce \in BOOLEAN
    /\ file = SeedDoc
    /\ prefCache = <<>>
    /\ held = NoToken
    /\ phase = "idle"
    /\ req = NoReq
    /\ resp = NoResp
    /\ loaded = load_state(MissingFile)
    /\ pure = NoPure
    /\ minted = 0
    /\ stream = NoStream
    /\ inflight = {}
    /\ client = NoClient
    /\ servers = NoServers

\* POST /actions/run_script with request r
RunRest(r) ==
    /\ phase = "idle" /\ r.op = "run" /\ r.via = "rest"
    /\ req' = r
    /\ resp' = http_run_script(r, prefCache, enforce, file, now)
    /\ phase' = "done"
    /\ UNCHANGED <<now, enforce, file, prefCache, held, loaded, pure, minted, stream, inflight, client, servers>>

\* GET /sse/run_script_stream with request r
RunSse(r) ==
    /\ phase = "idle" /\ r.op = "run" /\ r.via = "sse"
    /\ req' = r
    /\ resp' = http_run_script_stream(r, prefCache, enforce, file, now)
    /\ phase' = "done"
    /\ UNCHANGED <<now, enforce, file, prefCache, held, loaded, pure, minted, stream, inflight, client, servers>>

\* POST /mcp tools/call run_script with request r
RunMcp(r) ==
    /\ phase = "idle" /\ r.op = "run" /\ r.via = "mcp"
    /\ req' = r
    /\ resp' = mcp_run_script(r, prefCache, enforce, file, now)
    /\ phase' = "done"
    /\ UNCHANGED <<now, enforce, file, prefCache, held, loaded, pure, minted, stream, inflight, client, servers>>

\* POST /actions/check_script with request r
CheckRest(r) ==
    /\ phase = "idle" /\ r.op = "check" /\ r.via = "rest"
    /\ req' = r
    /\ \E out \in {http_check_script(r, prefCache, file, now)} :
          resp' = out.answer /\ prefCache' = out.cache
    /\ phase' = "done"
    /\ UNCHANGED <<now, enforce, file, held, loaded, pure, minted, stream, inflight, client, servers>>

\* POST /mcp tools/call check_script with request r
CheckMcp(r) ==
    /\ phase = "idle" /\ r.op = "check" /\ r.via = "mcp"
    /\ req' = r
    /\ \E out \in {mcp_check_script(r, prefCache, file, now)} :
          resp' = out.answer /\ prefCache' = out.cache
    /\ phase' = "done"
    /\ UNCHANGED <<now, enforce, file, held, loaded, pure, minted, stream, inflight, client, servers>>

\* the client reads the answer; it may keep a token the answer carries
Reply ==
    /\ phase = "done"
    /\ phase' = "idle"
    /\ held' \in {held} \cup (IF resp.preflightToken # NoToken THEN {resp.preflightToken} ELSE {})
    /\ req' = NoReq
    /\ resp' = NoResp
    /\ UNCHANGED <<now, enforce, file, prefCache, loaded, pure, minted, stream, inflight, client, servers>>

\* time passes between requests
Tick ==
    /\ phase = "idle"
    /\ now + TickMs <= MaxTick * TickMs
    /\ now' = now + TickMs
    /\ UNCHANGED <<enforce, file, prefCache, held, phase, req, resp, loaded, pure, minted, stream, inflight, client, servers>>

Next ==
    \/ \E r \in RunRequests(held) : RunRest(r)
    \/ \E r \in RunRequests(held) : RunSse(r)
    \/ \E r \in RunRequests(held) : RunMcp(r)
    \/ \E r \in CheckRequests : CheckRest(r)
    \/ \E r \in CheckRequests : CheckMcp(r)
    \/ Reply
    \/ Tick

Spec == Init /\ [][Next]_vars

-----------------------------------------------------------------------------
(* The execution gate *)

\* the session cache holds an entry for (sess, path, args) no older than
\* the TTL at time t
FreshEntry(cache, sess, path, args, t) ==
    /\ sess # NoSession
    /\ _pref_key(sess, path, args) \in DOMAIN cache
    /\ t - cache[_pref_key(sess, path, args)] <= TtlSec * 1000

\* the request carries a token that verifies for its own (path, args)
TokenOk(r, t) == verify_preflight_token(r.token, r.path, r.args, t).ok

\* a run_script request has been answered
RunAnswered == phase = "done" /\ req.op = "run"

\* a check_script request has been answered
CheckAnswered == phase = "done" /\ req.op = "check"

\* the answer is the gate's E_POLICY denial: HTTP 428 on REST and SSE, a
\* tool error inside a 200 JSON-RPC result on MCP
IsGateDenial(r, a) ==
    /\ a.gate = "deny" /\ a.error = "E_POLICY" /\ ~a.validated /\ ~a.ran
    /\ a.status = (IF r.via = "mcp" THEN 200 ELSE 428)

\* C1: with enforcement on, a run_script request (REST, SSE, MCP) reaches
\* argument validation iff its token verifies for its (path, args) or its
\* session has a cache entry for (sessionId, path, args) within the TTL; the
\* runner is reached only then, and in every other case the answer is the
\* gate's E_POLICY denial.
C1_GateIffTokenOrFreshEntry ==
    (RunAnswered /\ enforce) =>
        /\ resp.validated <=>
              (TokenOk(req, now) \/ FreshEntry(prefCache, SessionOf(req), req.path, req.args, now))
        /\ resp.ran => resp.validated
        /\ ~resp.validated => IsGateDenial(req, resp)

\* C1 witness: a run admitted on the session cache alone, and started
C1_Witness ==
    /\ RunAnswered /\ enforce /\ resp.ran
    /\ ~TokenOk(req, now)
    /\ FreshEntry(prefCache, SessionOf(req), req.path, req.args, now)

\* the verdict of evaluate_preflight for request r on the stored policy
EvalAllowed(r, f, t) ==
    evaluate_preflight(r.path, r.args, SessionOf(r), AllowedRoot, flags_global,
                       load_state(f).state, t).allowed

\* C2: a token is issued and a session-cache entry recorded only by a
\* check_script call (REST or MCP) that evaluate_preflight allowed; a call
\* evaluated as not allowed returns no token and leaves the cache unchanged.
C2_IssueOnlyWhenAllowed ==
    [][/\ (prefCache' # prefCache \/ resp'.preflightToken # NoToken) =>
             /\ phase = "idle" /\ phase' = "done" /\ req'.op = "check"
             /\ EvalAllowed(req', file, now)
       /\ (phase = "idle" /\ phase' = "done" /\ req'.op = "check" /\ ~EvalAllowed(req', file, now)) =>
             /\ resp'.preflightToken = NoToken /\ ~resp'.allowed
             /\ prefCache' = prefCache]_vars

\* C2 witness: a check_script call refused while the cache already holds
\* entries of earlier allowed calls
C2_Witness ==
    /\ CheckAnswered /\ ~resp.allowed /\ resp.preflightToken = NoToken
    /\ prefCache # <<>>

\* the token check_script issues for (p, a) at time t0
IssuedFor(p, a, t0) == make_preflight_token(p, a, t0, TtlSec).preflightToken

\* the instants of the model's clock
Instants == {k * TickMs : k \in 0..MaxTick}

\* token tk, issued for (p, a) at t0, is presented before its expiry with
\* the run request r at time t
PresentsIssued(r, p, a, t0, t) ==
    /\ r.token = IssuedFor(p, a, t0)
    /\ _now_ts(t) <= _now_ts(t0) + TtlSec

\* verification is exact for the answered run request: ok iff the request
\* path normalizes to the issued one and the argument lists are equal,
\* else 'mismatch'
BindingExact(p, a) ==
    /\ TokenOk(req, now) <=> (Resolve(req.path) = Resolve(p) /\ req.args = a)
    /\ ~TokenOk(req, now) =>
          verify_preflight_token(req.token, req.path, req.args, now).reason = "mismatch"

\* C3 (as amended): a token issued for (p, a) and verified before expiry
\* verifies ok iff the request's path normalizes to p's and its args equal
\* a, else the reason is 'mismatch'; with enforcement on, a run presenting
\* it for another (path, args) is denied by the gate unless the session
\* cache holds a fresh entry for the run's own (sessionId, path, args).
C3_BindingExactDeniedUnlessCached ==
    RunAnswered =>
        \A p \in CheckPaths, a \in CheckArgs, t0 \in Instants :
            PresentsIssued(req, p, a, t0, now) =>
                /\ BindingExact(p, a)
                /\ (enforce /\ ~TokenOk(req, now)
                      /\ ~FreshEntry(prefCache, SessionOf(req), req.path, req.args, now))
                     => IsGateDenial(req, resp)

\* C3 as stated: every run presenting the token for another (path, args)
\* is denied by the gate
C3_MismatchAlwaysDenied ==
    RunAnswered =>
        \A p \in CheckPaths, a \in CheckArgs, t0 \in Instants :
            PresentsIssued(req, p, a, t0, now) =>
                /\ BindingExact(p, a)
                /\ (enforce /\ ~TokenOk(req, now)) => IsGateDenial(req, resp)

\* C3 witness: a run presenting an unexpired token issued for other args is
\* denied with 428
C3_Witness ==
    /\ RunAnswered /\ enforce /\ req.via = "rest" /\ resp.status = 428
    /\ \E p \in CheckPaths, a \in CheckArgs, t0 \in Instants :
          PresentsIssued(req, p, a, t0, now) /\ Resolve(req.path) = Resolve(p) /\ req.args # a

\* the limits run_script must apply for request r: the requested or default
\* timeout and the configured byte limit, each lowered to the cap when
\* effective_caps_for returns caps
ExpectedTimeout(r, caps) ==
    IF caps = NoCaps THEN (IF r.timeout_ms.some THEN r.timeout_ms.v ELSE TimeoutMsDefault)
    ELSE Min(IF r.timeout_ms.some THEN r.timeout_ms.v ELSE TimeoutMsDefault, caps.maxTimeoutMs)

ExpectedBytes(caps) ==
    IF caps = NoCaps THEN MaxOutputBytes ELSE Min(MaxOutputBytes, caps.maxBytes)

\* the caps effective_caps_for returns for request r on the stored policy
CapsOf(r, f, t) == effective_caps_for(r.path, SessionOf(r), AllowedRoot, load_state(f).state, t)

\* C6: with enforcement off no run_script request is denied by the gate
\* (no E_POLICY, no 428) whatever its token, session and the cache, and a
\* run that starts still has its limits clamped to the effective caps.
C6_EnforcementOffPassesAndClamps ==
    (RunAnswered /\ ~enforce) =>
        /\ resp.gate = "pass" /\ resp.validated
        /\ resp.status # 428 /\ resp.error # "E_POLICY"
        /\ resp.ran =>
              /\ resp.timeout_ms = ExpectedTimeout(req, CapsOf(req, file, now))
              /\ resp.max_output_bytes = ExpectedBytes(CapsOf(req, file, now))

\* C6 witness: without token, session cache entry or enforcement, a run
\* starts with the timeout lowered to the overlay profile's cap
C6_Witness ==
    /\ RunAnswered /\ ~enforce /\ resp.ran
    /\ req.token = NoToken /\ prefCache = <<>>
    /\ CapsOf(req, file, now) # NoCaps
    /\ resp.timeout_ms < TimeoutMsDefault

-----------------------------------------------------------------------------
(* The preflight token on its own: issue, alter, verify *)

TokPaths == {ScriptA, AliasA, ScriptB}
TokArgs == {<<>>, <<"--smoke">>, <<"--smoke", "--bad">>, <<"--bad", "--smoke">>}

\* what a client can do to a token it received
TamperKinds == {"header", "payload_exp", "payload_junk", "sig", "drop_sig", "extra", "forge", "resign_junk"}

Tampered(token, kind) ==
    CASE kind = "header" -> <<B64Json([alg |-> "none", typ |-> "JWT"]), token[2], token[3]>>
      [] kind = "payload_exp" -> <<token[1], B64Json([token[2].obj EXCEPT !.exp = @ + 1000]), token[3]>>
      [] kind = "payload_junk" -> <<token[1], B64Junk, token[3]>>
      [] kind = "sig" -> <<token[1], token[2], Hmac(OtherSecret, token[1], token[2])>>
      [] kind = "drop_sig" -> <<token[1], token[2]>>
      [] kind = "extra" -> <<token[1], token[2], token[3], token[3]>>
      [] kind = "forge" -> Forged(token)
      \* a holder of the server secret signs a payload that is not JSON
      [] kind = "resign_junk" -> SignedToken(ServerSecret, token[1], B64Junk)

\* the signature segment is the HMAC of header.payload under the server
\* secret
SigOk(token) == Len(token) = 3 /\ token[3] = Hmac(ServerSecret, token[1], token[2])

InitToken ==
    /\ now = 0
    /\ enforce = TRUE
    /\ file = SeedDoc
    /\ prefCache = <<>>
    /\ held = NoToken
    /\ phase = "idle"
    /\ req = NoReq
    /\ resp = NoResp
    /\ loaded = load_state(MissingFile)
    /\ pure = NoPure
    /\ minted = 0
    /\ stream = NoStream
    /\ inflight = {}
    /\ client = NoClient
    /\ servers = NoServers

\* make_preflight_token(p, a); the client keeps the token
IssueToken(p, a) ==
    /\ held' = make_preflight_token(p, a, now, TtlSec).preflightToken
    /\ pure' = [fn |-> "make_preflight_token", path |-> p, args |-> a, t |-> now, ttl |-> TtlSec,
                out |-> make_preflight_token(p, a, now, TtlSec)]
    /\ UNCHANGED <<now, enforce, file, prefCache, phase, req, resp, loaded, minted, stream, inflight, client, servers>>

\* the client alters the token it received
TamperToken(kind) ==
    /\ SigOk(held) /\ held[2].b64 = "json"
    /\ held' = Tampered(held, kind)
    /\ pure' = NoPure
    /\ UNCHANGED <<now, enforce, file, prefCache, phase, req, resp, loaded, minted, stream, inflight, client, servers>>

\* verify_preflight_token(held, p, a)
VerifyToken(p, a) ==
    /\ pure' = [fn |-> "verify_preflight_token", token |-> held, path |-> p, args |-> a, t |-> now,
                out |-> verify_preflight_token(held, p, a, now)]
    /\ UNCHANGED <<now, enforce, file, prefCache, held, phase, req, resp, loaded, minted, stream, inflight, client, servers>>

NextToken ==
    \/ \E p \in TokPaths, a \in TokArgs : IssueToken(p, a)
    \/ \E kind \in TamperKinds : TamperToken(kind)
    \/ \E p \in TokPaths, a \in TokArgs : VerifyToken(p, a)
    \/ Tick

SpecToken == InitToken /\ [][NextToken]_vars

MadeToken == pure.fn = "make_preflight_token"
VerifyCalled == pure.fn = "verify_preflight_token"

\* the verified token has three segments, a valid signature and a payload
\* that decodes
WellSigned(token) == SigOk(token) /\ token[2].b64 = "json"

\* C4: a token issued at time t with TTL d carries exp = t + d (whole
\* seconds of the server clock); verified with a valid signature at
\* now > exp the answer is ok=false, 'expired', whatever the request's path
\* and args; at now <= exp the reason is never 'expired'.
C4_ExpiryAtIatPlusTtl ==
    /\ MadeToken =>
          /\ pure.out.preflightToken[2].obj.iat = _now_ts(pure.t)
          /\ pure.out.preflightToken[2].obj.exp = _now_ts(pure.t) + pure.ttl
    /\ (VerifyCalled /\ WellSigned(pure.token)) =>
          /\ _now_ts(pure.t) > pure.token[2].obj.exp => pure.out = VerifyFail("expired")
          /\ _now_ts(pure.t) <= pure.token[2].obj.exp => pure.out.reason # "expired"

\* C4 witness: an issued token verified after its exp for a path it is not
\* bound to: the answer is 'expired'
C4_Witness ==
    /\ VerifyCalled /\ WellSigned(pure.token)
    /\ _now_ts(pure.t) > pure.token[2].obj.exp
    /\ _normalize_path(pure.path) # pure.token[2].obj.p
    /\ pure.out.reason = "expired"

\* the tokens the server issues in the model
IssuedTokens == {IssuedFor(p, a, t0) : p \in TokPaths, a \in TokArgs, t0 \in Instants}

\* tk has the three segments of iss with exactly one of them changed
OneSegmentChanged(iss, tk) ==
    Len(tk) = 3 /\ Cardinality({i \in 1..3 : tk[i] # iss[i]}) = 1

\* the path and args hash the token is bound to equal the request's
BoundTo(token, path, args) ==
    _normalize_path(path) = token[2].obj.p /\ _args_hash(args) = token[2].obj.ah

\* the reason the claim's order decides for a token that does not verify
ReasonInOrder(token, path, args, t) ==
    IF token = NoToken THEN "missing"
    ELSE IF ~WellSigned(token) THEN "invalid"
    ELSE IF _now_ts(t) > token[2].obj.exp THEN "expired"
    ELSE "mismatch"

\* C5: verify_preflight_token answers ok only when signature, expiry and
\* binding all pass; otherwise ok=false with one reason decided in the
\* order missing, invalid (segments, signature, payload), expired,
\* mismatch; an issued token with its header, payload or signature segment
\* changed is 'invalid'.
C5_VerifyReasonOrder ==
    VerifyCalled =>
        /\ pure.out.ok <=>
              /\ WellSigned(pure.token)
              /\ _now_ts(pure.t) <= pure.token[2].obj.exp
              /\ BoundTo(pure.token, pure.path, pure.args)
        /\ pure.out.ok => pure.out = VerifyOk
        /\ ~pure.out.ok =>
              pure.out = VerifyFail(ReasonInOrder(pure.token, pure.path, pure.args, pure.t))
        /\ (\E iss \in IssuedTokens : OneSegmentChanged(iss, pure.token)) =>
              pure.out = VerifyFail("invalid")

\* C5 witness: an issued token whose payload alone was changed (expiry
\* pushed out) is verified for the pair it was issued for: 'invalid'
C5_Witness ==
    /\ VerifyCalled /\ Len(pure.token) = 3 /\ pure.token[2].b64 = "json"
    /\ \E iss \in IssuedTokens :
          /\ OneSegmentChanged(iss, pure.token) /\ pure.token[2] # iss[2]
          /\ BoundTo(iss, pure.path, pure.args)
    /\ pure.out = VerifyFail("invalid")

-----------------------------------------------------------------------------
(* Capability resolution and the clamp of run_script *)

LargeCaps == CapsObj(JInt(5000), JInt(262144), JInt(1500), JInt(2))
\* caps whose concurrency is 0
IdleCaps == CapsObj(JInt(90000), JInt(262144), JInt(1500), JInt(0))
RuleCapsA == CapsObj(JInt(100), JInt(1000), JInt(100), JInt(3))

ProfilesJ ==
    Coll("obj", << <<"tiny", ProfileJ(TinyCaps, <<"--smoke">>)>>,
                   <<"large", ProfileJ(LargeCaps, <<"--smoke">>)>>,
                   <<"idle", ProfileJ(IdleCaps, <<>>)>> >>)

\* a path rule for ScriptA with caps, expiring at expiresAt
PathRuleA(exp) == RuleJ("r-a", "path", ScriptA, <<>>, <<>>, <<>>, <<>>, RuleCapsA, exp)
\* a scope rule for *.py under the root, without caps
ScopeRulePy == RuleJ("r-py", "scope", <<>>, AllowedRoot, << <<"*", ".py">> >>, <<>>, <<>>, CapsAbsent, NoExpiry)

SessionWide(sid, prof) == OverlayJ(OverlayFields, sid, prof, IsoAt(1500))

CapsDocs ==
    { SeedDoc,
      \* a rule with caps, no overlay
      Doc(JInt(1), Coll("list", <<PathRuleA(NoExpiry)>>), Coll("list", <<>>), ProfilesJ),
      \* a rule with caps and an overlay
      Doc(JInt(1), Coll("list", <<PathRuleA(IsoAt(1000))>>), Coll("list", <<SessionWide("s1", "tiny")>>), ProfilesJ),
      \* an overlay whose profile has concurrency 0
      Doc(JInt(1), Coll("list", <<PathRuleA(NoExpiry)>>), Coll("list", <<SessionWide("s1", "idle")>>), ProfilesJ),
      \* tests/test_multi_overlays.py: a session-wide overlay and a
      \* path-selected one for the same session
      Doc(JInt(1), Coll("list", <<>>),
          Coll("list", <<OverlaySelJ("s1", "large", IsoAt(1500), <<>>, <<>>, <<>>),
                         OverlaySelJ("s1", "tiny", IsoAt(1500), ScriptA, <<>>, <<>>)>>),
          ProfilesJ),
      \* two session-wide overlays of one session
      Doc(JInt(1), Coll("list", <<>>),
          Coll("list", <<SessionWide("s1", "large"), SessionWide("s1", "tiny")>>), ProfilesJ),
      \* a scope rule without caps, no overlay
      Doc(JInt(1), Coll("list", <<ScopeRulePy>>), Coll("list", <<>>), ProfilesJ) }

CapsTimeouts == {NoTimeout, TimeoutMs(20), TimeoutMs(999999)}

CapsRequests ==
    {Request("run", via, p, <<>>, NoToken, sid, NoSession, tm) :
        via \in {"rest", "sse", "mcp"}, p \in {ScriptA, ScriptB}, sid \in {NoSession, "s1"},
        tm \in CapsTimeouts}

InitCaps ==
    /\ now = 0
    /\ enforce = FALSE
    /\ file \in CapsDocs
    /\ prefCache = <<>>
    /\ held = NoToken
    /\ phase = "idle"
    /\ req = NoReq
    /\ resp = NoResp
    /\ loaded = load_state(MissingFile)
    /\ pure = NoPure
    /\ minted = 0
    /\ stream = NoStream
    /\ inflight = {}
    /\ client = NoClient
    /\ servers = NoServers

\* effective_caps_for(path, session_id, allowed_root, load_state(file))
ResolveCaps(path, session_id) ==
    /\ phase = "idle"
    /\ pure' = [fn |-> "effective_caps_for", path |-> path, session_id |-> session_id, t |-> now,
                out |-> effective_caps_for(path, session_id, AllowedRoot, load_state(file).state, now)]
    /\ UNCHANGED <<now, enforce, file, prefCache, held, phase, req, resp, loaded, minted, stream, inflight, client, servers>>

NextCaps ==
    \/ \E r \in CapsRequests : RunRest(r)
    \/ \E r \in CapsRequests : RunSse(r)
    \/ \E r \in CapsRequests : RunMcp(r)
    \/ Reply
    \/ Tick
    \/ \E path \in {ScriptA, ScriptB, Outside}, session_id \in {NoSession, "s1", "s2"} :
          ResolveCaps(path, session_id)

SpecCaps == InitCaps /\ [][NextCaps]_vars

\* the timeout the caller asked for, or the server default
RequestedOrDefault(r) == IF r.timeout_ms.some THEN r.timeout_ms.v ELSE TimeoutMsDefault

\* C7: for every run_script request (REST, SSE, MCP) that reaches the
\* runner and for which effective_caps_for returns caps, the applied timeout
\* is min(requested-or-default, caps.maxTimeoutMs) and the applied byte
\* limit is min(configured limit, caps.maxBytes); neither exceeds the cap
\* nor what the caller requested.
C7_CapsAreCeiling ==
    (RunAnswered /\ resp.ran /\ CapsOf(req, file, now) # NoCaps) =>
        /\ resp.timeout_ms = Min(RequestedOrDefault(req), CapsOf(req, file, now).maxTimeoutMs)
        /\ resp.max_output_bytes = Min(MaxOutputBytes, CapsOf(req, file, now).maxBytes)
        /\ resp.timeout_ms <= CapsOf(req, file, now).maxTimeoutMs
        /\ resp.max_output_bytes <= CapsOf(req, file, now).maxBytes
        /\ resp.timeout_ms <= RequestedOrDefault(req)
        /\ resp.max_output_bytes <= MaxOutputBytes

\* C7 witness: an SSE run asking for less than the cap keeps its own
\* timeout while the byte limit drops to the cap
C7_Witness ==
    /\ RunAnswered /\ resp.ran /\ req.via = "sse"
    /\ CapsOf(req, file, now) # NoCaps
    /\ req.timeout_ms.some /\ req.timeout_ms.v < CapsOf(req, file, now).maxTimeoutMs
    /\ resp.timeout_ms = req.timeout_ms.v
    /\ resp.max_output_bytes < MaxOutputBytes

CapsCalled == pure.fn = "effective_caps_for"

\* the policy document as written, read member by member
Stored(f) == LoadBody(f)

\* the selector an overlay was stored with
HasPathSel(o) == "path" \in o.keys /\ o.path # <<>>
HasScopeSel(o) == ~HasPathSel(o) /\ "scopeRoot" \in o.keys /\ o.scopeRoot # <<>> /\ o.patterns # <<>>

\* the overlay's selector covers the resolved path p (no selector: every
\* path)
OverlayCovers(o, p) ==
    IF HasPathSel(o) THEN Resolve(o.path) = p
    ELSE IF HasScopeSel(o)
         THEN /\ _is_under_root(p, o.scopeRoot)
              /\ \E i \in 1..Len(o.patterns) :
                    FnMatch(RelAtoms(SubSeq(p, Len(Resolve(o.scopeRoot)) + 1, Len(p))), o.patterns[i])
    ELSE TRUE

\* 3 for a path selector, 2 for a scope selector, 1 for session-wide
Specificity(o) == IF HasPathSel(o) THEN 3 ELSE IF HasScopeSel(o) THEN 2 ELSE 1

\* the stored overlays of the session that have not expired at t
LiveOverlays(f, sid, t) ==
    {i \in 1..Len(CollItems(f.overlays)) :
        /\ CollItems(f.overlays)[i].sessionId = sid
        /\ (~_parse_iso(CollItems(f.overlays)[i].expiresAt).some
             \/ _parse_iso(CollItems(f.overlays)[i].expiresAt).at > t)}

\* among them, the most specific ones that cover p
MostSpecific(f, sid, p, t) ==
    {i \in LiveOverlays(f, sid, t) :
        /\ OverlayCovers(CollItems(f.overlays)[i], p)
        /\ \A j \in LiveOverlays(f, sid, t) :
              OverlayCovers(CollItems(f.overlays)[j], p) =>
                  Specificity(CollItems(f.overlays)[j]) <= Specificity(CollItems(f.overlays)[i])}

\* the caps resolved when overlay i of the document supplies the overlay
\* caps
CapsWithOverlay(f, i, p, t) ==
    CombineCaps(OverlayCaps(ProfileGet(Stored(f), CollItems(f.overlays)[i].profile)),
                RuleCaps(MatchedRule(Stored(f), p, t)))

\* C8: when a session has several unexpired overlays, the caps resolved for
\* a path come from an overlay whose path selector equals the path, else
\* from one whose scope selector matches it, else from a session-wide one,
\* whatever the order of the stored list; a selected overlay never applies
\* to a script its selector does not cover.
C8_MostSpecificOverlayApplies ==
    (/\ CapsCalled /\ pure.session_id # NoSession
     /\ _is_under_root(Resolve(pure.path), AllowedRoot)
     /\ Cardinality(LiveOverlays(file, pure.session_id, pure.t)) >= 2) =>
        IF MostSpecific(file, pure.session_id, Resolve(pure.path), pure.t) = {}
        THEN pure.out = CombineCaps(NoCaps, RuleCaps(MatchedRule(Stored(file), Resolve(pure.path), pure.t)))
        ELSE \E i \in MostSpecific(file, pure.session_id, Resolve(pure.path), pure.t) :
                pure.out = CapsWithOverlay(file, i, Resolve(pure.path), pure.t)

\* the caps of the overlay profile and of the matched rule that
\* effective_caps_for merges, on the loaded policy st
SelectedOverlayCaps(st, sid, t) == OverlayCaps(OverlayProfile(st, SessionOverlay(st, sid, t)))
MatchedRuleCaps(st, p, t) == RuleCaps(MatchedRule(st, p, t))

FieldwiseMin(a, b) ==
    Caps(Min(a.maxTimeoutMs, b.maxTimeoutMs), Min(a.maxBytes, b.maxBytes),
         Min(a.maxStdoutLines, b.maxStdoutLines), Min(a.concurrency, b.concurrency))

\* the result the claim prescribes for overlay caps oc and rule caps rc
MinOfPresent(oc, rc) ==
    IF oc = NoCaps /\ rc = NoCaps THEN NoCaps
    ELSE IF rc = NoCaps THEN oc
    ELSE IF oc = NoCaps THEN rc
    ELSE FieldwiseMin(oc, rc)

\* C9: effective_caps_for returns, field by field (maxTimeoutMs, maxBytes,
\* maxStdoutLines, concurrency), the minimum of the overlay profile's and
\* the matched rule's caps when both are present, the single one present
\* otherwise, and no caps when neither is; no field exceeds a contributing
\* cap.
C9_FieldwiseMinOfPresent ==
    (CapsCalled /\ _is_under_root(Resolve(pure.path), AllowedRoot)) =>
        pure.out = MinOfPresent(SelectedOverlayCaps(load_state(file).state, pure.session_id, pure.t),
                                MatchedRuleCaps(load_state(file).state, Resolve(pure.path), pure.t))

-----------------------------------------------------------------------------
(* Loading the policy file *)

\* caps written with numeric strings: int() accepts them
StringCaps == CapsObj(JNumStr(50), JNumStr(65536), JAbsent, JInt(1))
\* a caps member with a value int() rejects
BrokenCaps == CapsObj(JBad, JInt(65536), JInt(200), JInt(1))

LoadVersions == {JInt(1), JNumStr(2), JBad}

LoadRules ==
    { Coll("absent", <<>>), Coll("null", <<>>),
      Coll("list", <<PathRuleA(NoExpiry)>>),
      Coll("list", <<PathRuleA(NoExpiry), NotAnObject>>),
      \* a rule without id, its caps written as strings
      Coll("list", <<RuleJ("", "path", ScriptA, <<>>, <<>>, <<>>, <<>>, StringCaps, NoExpiry)>>),
      Coll("list", <<RuleJ("r-b", "path", ScriptB, <<>>, <<>>, <<>>, <<>>, BrokenCaps, NoExpiry)>>) }

LoadOverlays ==
    { Coll("absent", <<>>),
      Coll("list", <<SessionWide("s1", "tiny")>>),
      Coll("list", <<OverlaySelJ("s1", "tiny", IsoAt(1500), ScriptA, <<>>, <<>>)>>),
      \* an overlay without its profile member
      Coll("list", <<OverlayJ({"sessionId"}, "s1", "", NoExpiry)>>) }

LoadProfiles ==
    { Coll("absent", <<>>),
      \* "profiles": []
      Coll("list", <<>>),
      Coll("obj", << <<"tiny", ProfileJ(TinyCaps, <<"--smoke">>)>> >>),
      Coll("string", <<>>) }

LoadDocs ==
    {MissingFile, GarbageFile, NonObjectJson}
    \cup {Doc(v, r, o, pf) : v \in LoadVersions, r \in LoadRules, o \in LoadOverlays, pf \in LoadProfiles}

InitLoad ==
    /\ now = 0
    /\ enforce = FALSE
    /\ file = MissingFile
    /\ prefCache = <<>>
    /\ held = NoToken
    /\ phase = "idle"
    /\ req = NoReq
    /\ resp = NoResp
    /\ loaded = load_state(MissingFile)
    /\ pure = NoPure
    /\ minted = 0
    /\ stream = NoStream
    /\ inflight = {}
    /\ client = NoClient
    /\ servers = NoServers

\* the policy file is written (by save_state, an editor, a crash
\* mid-write); the record of the last load no longer describes the file
WriteFile(d) ==
    /\ file' = d
    /\ pure' = NoPure
    /\ UNCHANGED <<now, enforce, prefCache, held, phase, req, resp, loaded, minted, stream, inflight, client, servers>>

\* load_state(TSM_ALLOWED_FILE)
LoadState ==
    /\ loaded' = load_state(file)
    /\ pure' = [fn |-> "load_state", file |-> file]
    /\ UNCHANGED <<now, enforce, file, prefCache, held, phase, req, resp, minted, stream, inflight, client, servers>>

NextLoad ==
    \/ \E d \in LoadDocs : WriteFile(d)
    \/ LoadState

SpecLoad == InitLoad /\ [][NextLoad]_vars

LoadCalled == pure.fn = "load_state"

\* no rules, no overlays, no profiles
IsEmptyState(st) == st.rules = <<>> /\ st.overlays = <<>> /\ st.profiles = <<>>

\* a caps member of the right JSON type: absent, or an object of integers
CapsWellTyped(c) ==
    \/ c.shape = "absent"
    \/ /\ c.shape = "obj"
       /\ \A k \in {"maxTimeoutMs", "maxBytes", "maxStdoutLines", "concurrency"} :
             c[k].t \in {"absent", "int"}

\* a policy document whose members, where present, have the JSON types of
\* the data model: version an integer, rules and overlays arrays of
\* objects, profiles an object of objects, caps objects of integers, every
\* overlay naming its session and profile
WellFormedDoc(f) ==
    /\ f.kind = "json" /\ f.top = "object"
    /\ f.version.t \in {"absent", "int"}
    /\ f.rules.shape \in {"absent", "list"}
    /\ \A i \in 1..Len(CollItems(f.rules)) :
          CollItems(f.rules)[i].obj /\ CapsWellTyped(CollItems(f.rules)[i].caps)
    /\ f.overlays.shape \in {"absent", "list"}
    /\ \A i \in 1..Len(CollItems(f.overlays)) :
          CollItems(f.overlays)[i].obj /\ OverlayRequired \subseteq CollItems(f.overlays)[i].keys
    /\ f.profiles.shape \in {"absent", "obj"}
    /\ \A i \in 1..Len(CollItems(f.profiles)) :
          CollItems(f.profiles)[i][2].obj /\ CapsWellTyped(CollItems(f.profiles)[i][2].caps)

\* content load_state cannot read: not JSON, not an object at the top, a
\* rules or overlays member it cannot walk as objects, an overlay with a
\* member the Overlay type lacks or without sessionId or profile, a
\* non-empty profiles member that is not a map of objects, a version or
\* caps value int() rejects
Unreadable(f) ==
    \/ f.kind = "garbage"
    \/ f.kind = "json" /\ f.top # "object"
    \/ /\ f.kind = "json" /\ f.top = "object"
       /\ \/ f.version.t = "bad"
          \/ f.rules.shape \in {"null", "string"}
          \/ f.overlays.shape \in {"null", "string"}
          \/ f.profiles.shape = "string"
          \/ \E i \in 1..Len(CollItems(f.rules)) :
                \/ ~CollItems(f.rules)[i].obj
                \/ CollItems(f.rules)[i].caps.shape = "bad"
                \/ /\ CollItems(f.rules)[i].caps.shape = "obj"
                   /\ \E k \in {"maxTimeoutMs", "maxBytes", "maxStdoutLines", "concurrency"} :
                         CollItems(f.rules)[i].caps[k].t = "bad"
          \/ \E i \in 1..Len(CollItems(f.overlays)) :
                \/ ~CollItems(f.overlays)[i].obj
                \/ CollItems(f.overlays)[i].keys # {"sessionId", "profile"}
                   /\ CollItems(f.overlays)[i].keys # {"sessionId", "profile", "expiresAt"}

-----------------------------------------------------------------------------
(* Policy evaluation: evaluate_preflight and effective_caps_for on policy    *)
(* files with rules, overlays and profiles                                   *)

\* an overlay without selector expiring at exp
SessionWideAt(sid, prof, exp) == OverlayJ(OverlayFields, sid, prof, exp)

\* a path rule for ScriptA allowing --port, with caps, expiring at 700 ms
RuleOldA == RuleJ("r-old", "path", ScriptA, <<>>, <<>>, <<"--port">>, <<>>, RuleCapsA, IsoAt(700))
\* a scope rule for everything under the root: allows --smoke and --port,
\* denies --smoke
RuleScopeAll ==
    RuleJ("r-all", "scope", <<>>, AllowedRoot, << <<"*">> >>, <<"--smoke", "--port">>, <<"--smoke">>,
          LargeCaps, NoExpiry)
\* a path rule for a script outside the allowed root
RuleOutside == RuleJ("r-out", "path", Outside, <<>>, <<>>, <<"--smoke">>, <<>>, RuleCapsA, NoExpiry)
\* a scope rule for the directory of that script
RuleScopeEtc == RuleJ("r-etc", "scope", <<>>, <<"etc">>, << <<"*">> >>, <<>>, <<>>, RuleCapsA, NoExpiry)
\* a scope rule whose pattern names the script by its basename
RuleBaseName == RuleJ("r-base", "scope", <<>>, AllowedRoot, << <<"run", ".py">> >>, <<>>, <<"--port">>, CapsAbsent, NoExpiry)

PolicyDocs ==
    { MissingFile, GarbageFile,
      \* a rule whose caps int() rejects: load_state returns the empty state
      Doc(JInt(1), Coll("list", <<RuleJ("r-b", "path", ScriptA, <<>>, <<>>, <<>>, <<"--smoke">>, BrokenCaps, NoExpiry)>>),
          Coll("list", <<>>), ProfilesJ),
      SeedDoc,
      \* a rule that expires, before a rule that does not
      Doc(JInt(1), Coll("list", <<RuleOldA, RuleScopeAll>>), Coll("list", <<>>), ProfilesJ),
      \* the same rules in the other order
      Doc(JInt(1), Coll("list", <<RuleScopeAll, RuleOldA>>), Coll("list", <<>>), ProfilesJ),
      \* an overlay that expires, before one that does not
      Doc(JInt(1), Coll("list", <<PathRuleA(NoExpiry)>>),
          Coll("list", <<SessionWideAt("s1", "tiny", IsoAt(700)), SessionWideAt("s1", "large", NoExpiry)>>),
          ProfilesJ),
      \* one overlay, which expires
      Doc(JInt(1), Coll("list", <<RuleOldA>>),
          Coll("list", <<SessionWideAt("s1", "tiny", IsoAt(1400))>>), ProfilesJ),
      \* rules for a place outside the allowed root
      Doc(JInt(1), Coll("list", <<RuleOutside, RuleScopeEtc>>), Coll("list", <<>>), ProfilesJ),
      \* scope rules with the patterns *.py and run.py
      Doc(JInt(1), Coll("list", <<ScopeRulePy, RuleBaseName>>), Coll("list", <<>>), ProfilesJ),
      Doc(JInt(1), Coll("list", <<RuleBaseName>>), Coll("list", <<>>), ProfilesJ) }

\* a path outside the allowed root that names no file
GoneOutside == <<"etc", "gone.sh">>

PolicyPaths == {ScriptA, AliasA, GoneA, Outside, GoneOutside, AllowedRoot, <<"srv", "run.py">>}
PolicyArgs == {<<>>, <<"--smoke">>, <<"--port", "--smoke">>, <<"--bad", "x", "--port", "--bad">>}
PolicySessions == {NoSession, "s1", "s2"}
\* the global flag lists: TSM_ALLOWED_ARGS as configured, and a wider one
PolicyGlobals == {flags_global, {"--smoke", "--port"}}

PolicyCheckRequests ==
    {Request("check", via, p, a, NoToken, sid, NoSession, NoTimeout) :
        via \in {"rest", "mcp"}, p \in {ScriptA, GoneA, Outside},
        a \in {<<>>, <<"--smoke">>, <<"--bad">>}, sid \in {NoSession, "s1"}}

InitPolicy ==
    /\ now = 0
    /\ enforce = FALSE
    /\ file \in PolicyDocs
    /\ prefCache = <<>>
    /\ held = NoToken
    /\ phase = "idle"
    /\ req = NoReq
    /\ resp = NoResp
    /\ loaded = load_state(MissingFile)
    /\ pure = NoPure
    /\ minted = 0
    /\ stream = NoStream
    /\ inflight = {}
    /\ client = NoClient
    /\ servers = NoServers

\* evaluate_preflight(path, args, session_id, None, None, allowed_root,
\* flags_global, load_state(file)); eff is its effective_allowed_flags
EvalPreflight(path, args, session_id, fg) ==
    /\ phase = "idle"
    /\ pure' = [fn |-> "evaluate_preflight", path |-> path, args |-> args, session_id |-> session_id,
                flags_global |-> fg, t |-> now,
                out |-> evaluate_preflight(path, args, session_id, AllowedRoot, fg, load_state(file).state, now),
                eff |-> EffectiveAllowedFlags(Resolve(path), session_id, fg, load_state(file).state, now)]
    /\ UNCHANGED <<now, enforce, file, prefCache, held, phase, req, resp, loaded, minted, stream, inflight, client, servers>>

\* one call is observed per behaviour: the calls are pure, so a second one
\* sees nothing the first did
NextPolicy ==
    \/ \E path \in PolicyPaths, args \in PolicyArgs, session_id \in PolicySessions, fg \in PolicyGlobals :
          pure = NoPure /\ EvalPreflight(path, args, session_id, fg)
    \/ \E path \in PolicyPaths, session_id \in PolicySessions :
          pure = NoPure /\ ResolveCaps(path, session_id)
    \/ \E r \in PolicyCheckRequests : pure = NoPure /\ CheckRest(r)
    \/ \E r \in PolicyCheckRequests : pure = NoPure /\ CheckMcp(r)
    \/ Tick

SpecPolicy == InitPolicy /\ [][NextPolicy]_vars

EvalCalled == pure.fn = "evaluate_preflight"

\* every '--' token of args is in the set flags
DashFlagsWithin(args, flags) == \A i \in 1..Len(args) : StartsWithDashes(args[i]) => args[i] \in flags

\* the static configuration alone admits (path, args): under the allowed
\* root, an existing file, only globally allowed flags
StaticallyAllowed(path, args, fg) ==
    /\ IsPrefix(AllowedRoot, Resolve(path))
    /\ Resolve(path) \in Files
    /\ DashFlagsWithin(args, fg)

\* the policy file loads as the empty state
LoadsEmpty(f) == load_state(f).state = PolicyState0

ExpiredAt(x, t) == x.expiresAt.t = "iso" /\ x.expiresAt.at <= t

\* the policy state st with the rules expired at t taken out
WithoutExpiredRules(st, t) ==
    [st EXCEPT !.rules = SelectSeq(st.rules, LAMBDA r : ~ExpiredAt(r, t))]

\* C12: in evaluate_preflight and in effective_caps_for a rule whose
\* expiresAt is at or before the current time is never the matched rule and
\* contributes no flags and no caps: the result is the one the policy gives
\* with the expired rules taken out, so an expired rule before a valid
\* matching rule does not keep the valid rule from matching.
C12_ExpiredRuleIsInert ==
    /\ EvalCalled =>
          /\ pure.out.matchedRule # NoRule => ~ExpiredAt(pure.out.matchedRule, pure.t)
          /\ pure.out = evaluate_preflight(pure.path, pure.args, pure.session_id, AllowedRoot, pure.flags_global,
                                           WithoutExpiredRules(load_state(file).state, pure.t), pure.t)
          /\ pure.eff = EffectiveAllowedFlags(Resolve(pure.path), pure.session_id, pure.flags_global,
                                              WithoutExpiredRules(load_state(file).state, pure.t), pure.t)
    /\ CapsCalled =>
          pure.out = effective_caps_for(pure.path, pure.session_id, AllowedRoot,
                                        WithoutExpiredRules(load_state(file).state, pure.t), pure.t)

\* C12 witness: at the very instant the first rule expires, the rule after
\* it is the matched rule and its flags decide
C12_Witness ==
    /\ EvalCalled /\ Resolve(pure.path) = ScriptA /\ pure.flags_global = {"--smoke", "--port"}
    /\ Len(load_state(file).state.rules) = 2
    /\ load_state(file).state.rules[1].expiresAt = IsoAt(pure.t)
    /\ RuleSelects(load_state(file).state.rules[1], ScriptA)
    /\ pure.out.matchedRule = load_state(file).state.rules[2]
    /\ pure.eff = {"--port"}

\* the policy state st with the overlays expired at t taken out
WithoutExpiredOverlays(st, t) ==
    [st EXCEPT !.overlays = SelectSeq(st.overlays, LAMBDA o : ~ExpiredAt(o, t))]

\* C13: an overlay whose expiresAt is at or before the current time
\* contributes neither flag narrowing nor caps and does not shadow a later
\* unexpired overlay of its session: evaluate_preflight and
\* effective_caps_for give the result of the policy with the expired
\* overlays taken out, hence of a session without overlay once all of its
\* overlays have expired.
C13_ExpiredOverlayIsInert ==
    /\ EvalCalled =>
          /\ pure.out = evaluate_preflight(pure.path, pure.args, pure.session_id, AllowedRoot, pure.flags_global,
                                           WithoutExpiredOverlays(load_state(file).state, pure.t), pure.t)
          /\ pure.eff = EffectiveAllowedFlags(Resolve(pure.path), pure.session_id, pure.flags_global,
                                              WithoutExpiredOverlays(load_state(file).state, pure.t), pure.t)
    /\ CapsCalled =>
          pure.out = effective_caps_for(pure.path, pure.session_id, AllowedRoot,
                                        WithoutExpiredOverlays(load_state(file).state, pure.t), pure.t)
    /\ (EvalCalled /\ \A i \in 1..Len(load_state(file).state.overlays) :
                          ExpiredAt(load_state(file).state.overlays[i], pure.t)) =>
          pure.eff = FlagsAfterRule(pure.out.matchedRule, pure.flags_global)

\* C13 witness: the session's first overlay has expired and the caps are
\* those of the profile of its second, unexpired overlay
C13_Witness ==
    /\ CapsCalled /\ pure.session_id = "s1" /\ Resolve(pure.path) = <<"srv", "run.py">>
    /\ Len(load_state(file).state.overlays) = 2
    /\ ExpiredAt(load_state(file).state.overlays[1], pure.t)
    /\ load_state(file).state.overlays[1].sessionId = "s1"
    /\ load_state(file).state.overlays[2].profile = "large"
    /\ pure.out = _to_caps(LargeCaps)

\* the flag list x narrows: it is present and not empty
Narrows(x) == x # <<>>

\* the profile of the overlay that applies to the session at t, NoProfile
\* when none applies or the profile is not defined
AppliedProfile(st, sid, t) == OverlayProfile(st, SessionOverlay(st, sid, t))

\* global, met with the applied profile's flagsAllowed and with the matched
\* rule's flagsAllowed where those are given, minus the rule's flagsDenied
ExpectedFlags(fg, prof, rule) ==
    {x \in fg :
        /\ (prof # NoProfile /\ Narrows(prof.flagsAllowed)) => x \in SeqToSet(prof.flagsAllowed)
        /\ (rule # NoRule /\ Narrows(rule.flagsAllowed)) => x \in SeqToSet(rule.flagsAllowed)
        /\ (rule # NoRule) => x \notin SeqToSet(rule.flagsDenied)}

\* the '--' tokens of args outside the set eff, in request order
RequestedOutside(args, eff) == SelectSeq(args, LAMBDA a : StartsWithDashes(a) /\ a \notin eff)

\* C15: the effective allowed flag set of evaluate_preflight is global
\* intersected with the applied profile's flagsAllowed and with the matched
\* rule's flagsAllowed, minus the rule's flagsDenied; a requested flag in
\* flagsDenied is rejected even when every allowed set has it; every
\* requested '--' flag outside the effective set is listed, in request
\* order, in one 'disallowed_flags: ...' reason.
C15_EffectiveFlagsFormula ==
    EvalCalled =>
        /\ pure.eff = ExpectedFlags(pure.flags_global,
                                    AppliedProfile(load_state(file).state, pure.session_id, pure.t),
                                    pure.out.matchedRule)
        /\ \A i \in 1..Len(pure.args) :
              (/\ pure.out.matchedRule # NoRule
               /\ StartsWithDashes(pure.args[i])
               /\ pure.args[i] \in SeqToSet(pure.out.matchedRule.flagsDenied)) =>
                  (~pure.out.allowed /\ pure.args[i] \notin pure.eff)
        /\ IF RequestedOutside(pure.args, pure.eff) = <<>>
           THEN \A i \in 1..Len(pure.out.reasons) :
                    pure.out.reasons[i] \in {"outside_allowed_root", "path_not_found"}
           ELSE /\ pure.out.reasons # <<>>
                /\ pure.out.reasons[Len(pure.out.reasons)]
                      = "disallowed_flags: " \o JoinStr(RequestedOutside(pure.args, pure.eff), ",")
                /\ \A i \in 1..(Len(pure.out.reasons) - 1) :
                      pure.out.reasons[i] \in {"outside_allowed_root", "path_not_found"}

\* C15 witness: --smoke is in the global set and in the rule's flagsAllowed
\* and still rejected because the rule denies it
C15_Witness ==
    /\ EvalCalled /\ pure.args = <<"--port", "--smoke">>
    /\ pure.flags_global = {"--smoke", "--port"}
    /\ pure.out.matchedRule # NoRule
    /\ "--smoke" \in SeqToSet(pure.out.matchedRule.flagsAllowed)
    /\ "--smoke" \in SeqToSet(pure.out.matchedRule.flagsDenied)
    /\ pure.eff = {"--port"}
    /\ pure.out.reasons = <<"disallowed_flags: --smoke">>

\* C16: evaluate_preflight allows iff its reasons list is empty, which is
\* iff the path is under the allowed root, names an existing file and every
\* requested '--' flag is in the effective allowed set; a path that is both
\* outside the root and missing gets both reasons; with no matching rule the
\* request is still allowed when those three hold, with matchedRule null;
\* the three conditions alone fix the decision, whatever is suggested.
C16_AllowedIffNoReasons ==
    EvalCalled =>
        /\ pure.out.allowed <=> (pure.out.reasons = <<>>)
        /\ pure.out.allowed <=>
              (/\ _is_under_root(pure.path, AllowedRoot)
               /\ IsFile(pure.path)
               /\ DashFlagsWithin(pure.args, pure.eff))
        /\ (~_is_under_root(pure.path, AllowedRoot) /\ ~IsFile(pure.path)) =>
              {"outside_allowed_root", "path_not_found"} \subseteq SeqToSet(pure.out.reasons)
        /\ (/\ \A i \in 1..Len(load_state(file).state.rules) :
                  ~RuleMatches(load_state(file).state.rules[i], Resolve(pure.path), pure.t)
            /\ StaticallyAllowed(pure.path, pure.args, pure.eff)) =>
              (pure.out.allowed /\ pure.out.matchedRule = NoRule)

\* C16 witness: a path outside the root that names no file is refused with
\* both reasons
C16_WitnessBothReasons ==
    /\ EvalCalled /\ pure.path = GoneOutside
    /\ pure.out.reasons = <<"outside_allowed_root", "path_not_found">>
    /\ ~pure.out.allowed

\* the policy state st with only its first n rules
FirstRules(st, n) == [st EXCEPT !.rules = SubSeq(st.rules, 1, n)]

\* rule i of st is the earliest unexpired rule whose selector matches p at t
EarliestMatch(st, i, p, t) ==
    /\ RuleMatches(st.rules[i], p, t)
    /\ \A j \in 1..(i - 1) : ~RuleMatches(st.rules[j], p, t)

\* C17: the matched rule is the earliest rule in list order that is
\* unexpired and whose selector matches the path, none when no rule is;
\* the rules after it change neither the decision of evaluate_preflight
\* nor the caps effective_caps_for resolves.
C17_FirstMatchWins ==
    /\ EvalCalled =>
          /\ (\A i \in 1..Len(load_state(file).state.rules) :
                 ~RuleMatches(load_state(file).state.rules[i], Resolve(pure.path), pure.t))
                => pure.out.matchedRule = NoRule
          /\ \A i \in 1..Len(load_state(file).state.rules) :
                EarliestMatch(load_state(file).state, i, Resolve(pure.path), pure.t) =>
                   /\ pure.out.matchedRule = load_state(file).state.rules[i]
                   /\ pure.out = evaluate_preflight(pure.path, pure.args, pure.session_id, AllowedRoot,
                                                    pure.flags_global,
                                                    FirstRules(load_state(file).state, i), pure.t)
    /\ pure.fn = "effective_caps_for" =>
          \A i \in 1..Len(load_state(file).state.rules) :
             EarliestMatch(load_state(file).state, i, Resolve(pure.path), pure.t) =>
                pure.out = effective_caps_for(pure.path, pure.session_id, AllowedRoot,
                                              FirstRules(load_state(file).state, i), pure.t)

\* C17 witness: two unexpired rules with different flags select the path
\* and the first of them is the matched rule
C17_Witness ==
    /\ EvalCalled
    /\ Len(load_state(file).state.rules) = 2
    /\ \A i \in 1..2 : RuleMatches(load_state(file).state.rules[i], Resolve(pure.path), pure.t)
    /\ load_state(file).state.rules[1].flagsDenied # load_state(file).state.rules[2].flagsDenied
    /\ pure.out.matchedRule = load_state(file).state.rules[1]
    /\ pure.args = <<"--port", "--smoke">>
    /\ pure.flags_global = {"--smoke", "--port"}

RECURSIVE GlobMatch(_, _)
\* shell-glob matching of a relative path: '*' and '?' stay within one path
\* segment, only '**' spans segments, anything else is literal
GlobMatch(name, pat) ==
    IF pat = <<>> THEN name = <<>>
    ELSE IF Len(pat) >= 2 /\ pat[1] = "*" /\ pat[2] = "*"
         THEN \E k \in 0..Len(name) : GlobMatch(SubSeq(name, k + 1, Len(name)), SubSeq(pat, 3, Len(pat)))
    ELSE IF Head(pat) = "*"
         THEN \E k \in 0..Len(name) :
                 /\ \A j \in 1..k : name[j] # "/"
                 /\ GlobMatch(SubSeq(name, k + 1, Len(name)), Tail(pat))
    ELSE IF Head(pat) = "?"
         THEN name # <<>> /\ Len(Head(name)) = 1 /\ Head(name) # "/" /\ GlobMatch(Tail(name), Tail(pat))
    ELSE name # <<>> /\ Head(name) = Head(pat) /\ GlobMatch(Tail(name), Tail(pat))

\* the resolved path p is strictly inside the resolved root
StrictlyInside(p, root) == IsPrefix(Resolve(root), p) /\ p # Resolve(root)

\* a scope rule as the specification describes its match
ScopeShouldMatch(r, p) ==
    /\ StrictlyInside(p, r.scopeRoot)
    /\ \E i \in 1..Len(r.patterns) :
          GlobMatch(RelAtoms(SubSeq(p, Len(Resolve(r.scopeRoot)) + 1, Len(p))), r.patterns[i])

\* C18: a scope rule matches a path iff the path is strictly inside the
\* resolved scopeRoot and its path relative to scopeRoot matches at least
\* one pattern, '*' staying within one path segment and only '**' spanning
\* segments; a path equal to scopeRoot does not match.
C18_ScopeMatchIsSegmentWise ==
    EvalCalled =>
        \A i \in 1..Len(load_state(file).state.rules) :
            (/\ load_state(file).state.rules[i].type = "scope"
             /\ load_state(file).state.rules[i].scopeRoot # <<>>
             /\ load_state(file).state.rules[i].patterns # <<>>) =>
                (RuleSelects(load_state(file).state.rules[i], Resolve(pure.path))
                    <=> ScopeShouldMatch(load_state(file).state.rules[i], Resolve(pure.path)))

\* C19: a path outside the allowed root never matches any rule: whatever
\* the policy file holds, evaluate_preflight refuses it with the reason
\* 'outside_allowed_root' and no matched rule, and effective_caps_for
\* returns no caps.
C19_OutsideRootMatchesNothing ==
    /\ (EvalCalled /\ ~_is_under_root(pure.path, AllowedRoot)) =>
          /\ ~pure.out.allowed
          /\ "outside_allowed_root" \in SeqToSet(pure.out.reasons)
          /\ pure.out.matchedRule = NoRule
    /\ (pure.fn = "effective_caps_for" /\ ~_is_under_root(pure.path, AllowedRoot)) =>
          pure.out = NoCaps

-----------------------------------------------------------------------------
(* Admin operations on the policy file (app.py) *)

\* number of rules the admin may add in a behaviour
MaxRules == 2

\* TSM_ADMIN_TOKEN
AdminToken == "adm"

\* str.strip() on the token strings of the model
Strip(s) == IF s = " adm " THEN "adm" ELSE IF s = " " THEN "" ELSE s

\* the Authorization header of a request: absent, or a scheme and what
\* follows its first space
NoHeader == [scheme |-> "none", cred |-> ""]
Header(scheme, cred) == [scheme |-> scheme, cred |-> cred]

\* the admin_token query parameter: absent, or its value
NoQuery == [some |-> FALSE, v |-> ""]
Query(v) == [some |-> TRUE, v |-> v]

\* _admin_ok without the test that a token is configured
_admin_ok_Unset(token, hdr, query) ==
    IF hdr.scheme = "Bearer" THEN Strip(hdr.cred) = Strip(token)
    ELSE query.some /\ query.v = Strip(token)

\* _admin_ok with TSM_ADMIN_TOKEN = token ("" when unset): a Bearer header
\* decides alone; without one the admin_token query parameter does
_admin_ok(token, hdr, query) ==
    IF token = "" THEN FALSE
    ELSE IF hdr.scheme = "Bearer" THEN Strip(hdr.cred) = Strip(token)
    ELSE query.some /\ query.v = Strip(token)

\* a request whose Authorization header is 'Bearer <bearer>' (no header
\* for an empty bearer) and that has no admin_token parameter
BearerOk(bearer) ==
    _admin_ok(AdminToken, IF bearer = "" THEN NoHeader ELSE Header("Bearer", bearer), NoQuery)

\* rp.exists() / rr.is_dir(): the regular files and the directories above
\* them
IsDir(p) == \E f \in Files : IsPrefix(Resolve(p), f) /\ Resolve(p) # f
Exists(p) == IsFile(p) \/ IsDir(p)

\* rule-<uuid4().hex[:8]>: a fresh identifier, here numbered by the
\* identifiers produced before
NewRuleId(n) == "rule-" \o <<"0", "1", "2", "3", "4", "5", "6", "7", "8", "9">>[n + 1]

\* the body of POST /admin/allowlist/add
AddBody(bearer, type, path, scopeRoot, patterns, fa, fd, caps, ttlSec) ==
    [bearer |-> bearer, type |-> type, path |-> path, scopeRoot |-> scopeRoot, patterns |-> patterns,
     flagsAllowed |-> fa, flagsDenied |-> fd, caps |-> caps, ttlSec |-> ttlSec]

\* expires_at: now + ttlSec for a positive integer ttlSec, else None
AddExpiry(ttlSec, t) == IF ttlSec > 0 THEN IsoAt(t + ttlSec * 1000) ELSE NoExpiry

\* the error admin_add answers before building a rule, "" if none
AddError(b) ==
    IF ~BearerOk(b.bearer) THEN "unauthorized"
    ELSE IF b.type = "path"
         THEN IF ~Exists(b.path) THEN "path_not_found"
              ELSE IF ~IsPrefix(AllowedRoot, Resolve(b.path)) THEN "outside_allowed_root"
              ELSE ""
    ELSE IF b.type = "scope"
         THEN IF ~IsDir(b.scopeRoot) THEN "scope_not_found"
              ELSE IF ~IsPrefix(AllowedRoot, Resolve(b.scopeRoot)) THEN "outside_allowed_root"
              ELSE IF b.patterns = <<>> THEN "patterns_required"
              ELSE ""
    ELSE "invalid type"

\* rule_obj: the Rule admin_add builds
AddRule(b, n, t) ==
    [id |-> NewRuleId(n), type |-> b.type,
     path |-> IF b.type = "path" THEN Resolve(b.path) ELSE <<>>,
     scopeRoot |-> IF b.type = "scope" THEN Resolve(b.scopeRoot) ELSE <<>>,
     patterns |-> IF b.type = "scope" THEN b.patterns ELSE <<>>,
     flagsAllowed |-> b.flagsAllowed, flagsDenied |-> b.flagsDenied,
     caps |-> b.caps, expiresAt |-> AddExpiry(b.ttlSec, t)]

\* state.rules.insert(0, rule_obj) instead of append
AddedState_Prepend(st, rule) == [st EXCEPT !.rules = <<rule>> \o @]

\* state.rules.append(rule_obj)
AddedState(st, rule) == [st EXCEPT !.rules = Append(@, rule)]

\* POST /admin/allowlist/add on a policy file holding f: the error
\* answered, whether save_state was called, the state handed to it and the
\* file afterwards; n identifiers were produced before. A rule with caps
\* cannot be rendered in the JSON answer either: the handler answers
\* persist_failed.
admin_add(b, f, t, n) ==
    IF AddError(b) # ""
    THEN [error |-> AddError(b), called |-> FALSE, state |-> load_state(f).state, file |-> f]
    ELSE [error |-> IF b.caps # NoCaps THEN "persist_failed" ELSE "",
          called |-> TRUE,
          state |-> AddedState(load_state(f).state, AddRule(b, n, t)),
          file |-> save_state(f, AddedState(load_state(f).state, AddRule(b, n, t)))]

\* the body of POST /admin/session/profile
ProfileBody(bearer, sessionId, profile, ttlSec, path, scopeRoot, patterns) ==
    [bearer |-> bearer, sessionId |-> sessionId, profile |-> profile, ttlSec |-> ttlSec,
     path |-> path, scopeRoot |-> scopeRoot, patterns |-> patterns]

\* the error admin_session_profile answers before building the overlay
ProfileError(b, st) ==
    IF ~BearerOk(b.bearer) THEN "unauthorized"
    ELSE IF b.sessionId = NoSession \/ b.profile = "" THEN "sessionId_and_profile_required"
    ELSE IF ProfileGet(st, b.profile) = NoProfile THEN "unknown_profile"
    ELSE IF b.path # <<>> /\ ~Exists(b.path) THEN "overlay_path_not_found"
    ELSE IF b.path # <<>> /\ ~IsPrefix(AllowedRoot, Resolve(b.path)) THEN "overlay_path_outside_allowed_root"
    ELSE IF b.scopeRoot # <<>> /\ ~IsDir(b.scopeRoot) THEN "overlay_scope_not_found"
    ELSE IF b.scopeRoot # <<>> /\ ~IsPrefix(AllowedRoot, Resolve(b.scopeRoot))
         THEN "overlay_scope_outside_allowed_root"
    ELSE ""

\* POST /admin/session/profile: past the validation the handler calls
\* Overlay(sessionId=, profile=, expiresAt=, path=, scopeRoot=, patterns=,
\* id=, createdAt=), which raises TypeError as the Overlay type has the
\* first three fields only; nothing is appended or saved
admin_session_profile(b, f, t) ==
    [error |-> ProfileError(b, load_state(f).state),
     raised |-> ProfileError(b, load_state(f).state) = "",
     called |-> FALSE,
     state |-> load_state(f).state,
     file |-> f]

\* the body of POST /admin/allowlist/remove and /admin/overlay/remove
RemoveBody(bearer, id) == [bearer |-> bearer, id |-> id]

\* st.rules = [r for r in st.rules if r.id != rid]
RemovedState(st, rid) == [st EXCEPT !.rules = SelectSeq(@, LAMBDA r : r.id # rid)]

\* the answer of an admin mutation: the error ("" for ok=true), the count
\* reported as removed, the state the handler built and the file afterwards
AdminAnswer(error, removed, st, f) == [error |-> error, removed |-> removed, state |-> st, file |-> f]

\* what admin_remove answers once the rules are filtered: it serialises the
\* document itself, so a TypeError of json.dumps reaches its except clause
RemovePersist(st, kept, f) ==
    IF SaveRaises(kept) THEN AdminAnswer("persist_failed", 0, kept, f)
    ELSE AdminAnswer("", Len(st.rules) - Len(kept.rules), kept, SavedDoc(kept))

\* POST /admin/allowlist/remove on a policy file holding f
admin_remove(b, f) ==
    IF ~BearerOk(b.bearer) THEN AdminAnswer("unauthorized", 0, load_state(f).state, f)
    ELSE IF b.id = "" THEN AdminAnswer("id_required", 0, load_state(f).state, f)
    ELSE RemovePersist(load_state(f).state, RemovedState(load_state(f).state, b.id), f)

\* POST /admin/overlay/remove: getattr(o, 'id', None) is None for every
\* overlay load_state returns, so the filter keeps them all; the state is
\* handed to save_state, which swallows its own errors
admin_overlay_remove(b, f) ==
    IF ~BearerOk(b.bearer) THEN AdminAnswer("unauthorized", 0, load_state(f).state, f)
    ELSE IF b.id = "" THEN AdminAnswer("id_required", 0, load_state(f).state, f)
    ELSE AdminAnswer("", 0, load_state(f).state, save_state(f, load_state(f).state))

\* POST /admin/reload: a stub that answers ok
admin_reload(b, f) ==
    AdminAnswer(IF BearerOk(b.bearer) THEN "" ELSE "unauthorized", 0, load_state(f).state, f)

\* GET /admin/state: the rules, overlays and profiles of the loaded state;
\* the JSON answer cannot render the caps of a rule and the handler raises
admin_state(b, f) ==
    [error |-> IF BearerOk(b.bearer) THEN "" ELSE "unauthorized",
     raised |-> BearerOk(b.bearer) /\ SaveRaises(load_state(f).state),
     state |-> IF BearerOk(b.bearer) /\ ~SaveRaises(load_state(f).state)
               THEN load_state(f).state ELSE PolicyState0,
     file |-> f]

\* GET /admin, /admin/new, /admin/audit/tail: pages that read only
AdminPages == {"/admin", "/admin/new", "/admin/audit/tail"}
admin_page(page, b, f) ==
    AdminAnswer(IF BearerOk(b.bearer) THEN "" ELSE "unauthorized", 0, load_state(f).state, f)

\* tests/test_multi_overlays.py: a session-wide overlay with the large
\* profile and an overlay scoped to the directory of script A with the tiny
\* one, each stored with its id
MultiOverlayDoc ==
    Doc(JInt(1), Coll("list", <<ScopeRulePy>>),
        Coll("list", <<OverlayIdJ("ovr-1", "s1", "large", NoExpiry, <<>>, <<>>),
                       OverlayIdJ("ovr-2", "s1", "tiny", NoExpiry, <<"srv", "A">>, << <<"*", "*">> >>)>>),
        ProfilesJ)

AdminDocs ==
    { MissingFile, GarbageFile, SeedDoc,
      Doc(JInt(1), Coll("list", <<RuleBaseName>>), Coll("list", <<>>), ProfilesJ),
      \* a hand-written rule with caps
      Doc(JInt(1), Coll("list", <<PathRuleA(NoExpiry)>>), Coll("list", <<>>), ProfilesJ),
      \* two rules that share an id, around one that does not
      Doc(JInt(1), Coll("list", <<RuleBaseName, ScopeRulePy, RuleBaseName>>), Coll("list", <<>>), ProfilesJ),
      MultiOverlayDoc,
      \* two overlays of one session as save_state writes them, without id
      Doc(JInt(1), Coll("list", <<ScopeRulePy>>),
          Coll("list", <<SessionWide("s1", "large"), SessionWide("s1", "tiny")>>), ProfilesJ) }

AddBodies ==
    { AddBody("adm", "path", ScriptA, <<>>, <<>>, <<"--smoke">>, <<>>, NoCaps, 0),
      AddBody("adm", "scope", <<>>, AllowedRoot, << <<"*">> >>, <<"--port">>, <<>>, NoCaps, 1),
      AddBody("adm", "path", AliasA, <<>>, <<>>, <<>>, <<"--smoke">>, NoCaps, 0),
      AddBody("adm", "path", ScriptA, <<>>, <<>>, <<>>, <<>>, Caps(50, 65536, 200, 1), 0),
      AddBody("adm", "path", GoneA, <<>>, <<>>, <<>>, <<>>, NoCaps, 0),
      AddBody("adm", "scope", <<>>, <<"etc">>, << <<"*">> >>, <<>>, <<>>, NoCaps, 0),
      AddBody("", "path", ScriptA, <<>>, <<>>, <<>>, <<>>, NoCaps, 0) }

ProfileBodies ==
    { ProfileBody("adm", "s1", "tiny", 1, <<>>, <<>>, <<>>),
      ProfileBody("adm", "s1", "tiny", 1, ScriptA, <<>>, <<>>),
      ProfileBody("adm", "s1", "tiny", 1, <<>>, <<"srv", "A">>, << <<"*", "*">> >>),
      ProfileBody("adm", "s1", "nosuch", 1, <<>>, <<>>, <<>>),
      ProfileBody("adm", NoSession, "tiny", 1, <<>>, <<>>, <<>>),
      ProfileBody("adm", "s1", "tiny", 1, GoneA, <<>>, <<>>),
      ProfileBody("adm", "s1", "tiny", 1, <<>>, <<"etc">>, << <<"*">> >>),
      ProfileBody("", "s1", "tiny", 1, <<>>, <<>>, <<>>) }

RemoveBodies ==
    { RemoveBody("adm", "r-base"), RemoveBody("adm", "r-a"), RemoveBody("adm", "rule-0"),
      RemoveBody("adm", "nosuch"), RemoveBody("adm", ""), RemoveBody("", "r-base"),
      RemoveBody("adm", "ovr-2") }

\* requests without a body: with and without the admin token
ReadBodies == {RemoveBody("adm", ""), RemoveBody("", "")}

\* TSM_ADMIN_TOKEN values, Authorization headers and admin_token parameters
AdminTokens == {"", "adm", " adm ", " "}
AdminHeaders == {NoHeader, Header("Bearer", "adm"), Header("Bearer", "bad"), Header("Bearer", ""),
                 Header("Basic", "adm")}
AdminQueries == {NoQuery, Query("adm"), Query("bad"), Query("")}

InitAdmin ==
    /\ now = 0
    /\ enforce = FALSE
    /\ file \in AdminDocs
    /\ prefCache = <<>>
    /\ held = NoToken
    /\ phase = "idle"
    /\ req = NoReq
    /\ resp = NoResp
    /\ loaded = load_state(MissingFile)
    /\ pure = NoPure
    /\ minted = 0
    /\ stream = NoStream
    /\ inflight = {}
    /\ client = NoClient
    /\ servers = NoServers

\* POST /admin/allowlist/add with body b
AdminAdd(b) ==
    /\ minted < MaxRules
    /\ \E out \in {admin_add(b, file, now, minted)} :
          /\ file' = out.file
          /\ pure' = [fn |-> "admin_add", body |-> b, t |-> now, before |-> file,
                      error |-> out.error, called |-> out.called, raised |-> FALSE, state |-> out.state]
    /\ minted' = IF BearerOk(b.bearer) THEN minted + 1 ELSE minted
    /\ UNCHANGED <<now, enforce, prefCache, held, phase, req, resp, loaded, stream, inflight, client, servers>>

\* POST /admin/session/profile with body b
AdminSessionProfile(b) ==
    /\ \E out \in {admin_session_profile(b, file, now)} :
          /\ file' = out.file
          /\ pure' = [fn |-> "admin_session_profile", body |-> b, t |-> now, before |-> file,
                      error |-> out.error, called |-> out.called, raised |-> out.raised, state |-> out.state]
    /\ UNCHANGED <<now, enforce, prefCache, held, phase, req, resp, loaded, minted, stream, inflight, client, servers>>

\* what an admin request other than add and profile leaves in `pure`
AdminCall(fn, b, out) ==
    [fn |-> fn, body |-> b, t |-> now, before |-> file, error |-> out.error, called |-> FALSE,
     raised |-> FALSE, state |-> out.state, removed |-> out.removed]

\* POST /admin/allowlist/remove with body b
AdminRemove(b) ==
    /\ \E out \in {admin_remove(b, file)} :
          /\ file' = out.file
          /\ pure' = AdminCall("admin_remove", b, out)
    /\ UNCHANGED <<now, enforce, prefCache, held, phase, req, resp, loaded, minted, stream, inflight, client, servers>>

\* POST /admin/overlay/remove with body b
AdminOverlayRemove(b) ==
    /\ \E out \in {admin_overlay_remove(b, file)} :
          /\ file' = out.file
          /\ pure' = AdminCall("admin_overlay_remove", b, out)
    /\ UNCHANGED <<now, enforce, prefCache, held, phase, req, resp, loaded, minted, stream, inflight, client, servers>>

\* POST /admin/reload
AdminReload(b) ==
    /\ \E out \in {admin_reload(b, file)} :
          /\ file' = out.file
          /\ pure' = AdminCall("admin_reload", b, out)
    /\ UNCHANGED <<now, enforce, prefCache, held, phase, req, resp, loaded, minted, stream, inflight, client, servers>>

\* GET /admin/state
AdminState(b) ==
    /\ \E out \in {admin_state(b, file)} :
          /\ file' = out.file
          /\ pure' = [fn |-> "admin_state", body |-> b, t |-> now, before |-> file, error |-> out.error,
                      called |-> FALSE, raised |-> out.raised, state |-> out.state, removed |-> 0]
    /\ UNCHANGED <<now, enforce, prefCache, held, phase, req, resp, loaded, minted, stream, inflight, client, servers>>

\* GET /admin, /admin/new, /admin/audit/tail
AdminPage(page, b) ==
    /\ \E out \in {admin_page(page, b, file)} :
          /\ file' = out.file
          /\ pure' = AdminCall(page, b, out)
    /\ UNCHANGED <<now, enforce, prefCache, held, phase, req, resp, loaded, minted, stream, inflight, client, servers>>

\* _admin_ok on its own, for a configured token, a header and a parameter
AdminOk(token, hdr, query) ==
    /\ pure' = [fn |-> "_admin_ok", token |-> token, hdr |-> hdr, query |-> query,
                out |-> _admin_ok(token, hdr, query)]
    /\ UNCHANGED <<now, enforce, file, prefCache, held, phase, req, resp, loaded, minted, stream, inflight, client, servers>>

\* no request was observed yet, or the last one was an allowlist/add
FirstOrAfterAdd == pure = NoPure \/ pure.fn = "admin_add"

\* rules are added one after the other; a removal, a profile assignment or
\* a read is observed first or right after an add
NextAdmin ==
    \/ \E b \in AddBodies : AdminAdd(b)
    \/ \E b \in ProfileBodies : FirstOrAfterAdd /\ AdminSessionProfile(b)
    \/ \E b \in RemoveBodies : FirstOrAfterAdd /\ AdminRemove(b)
    \/ \E b \in RemoveBodies : FirstOrAfterAdd /\ AdminOverlayRemove(b)
    \/ \E b \in ReadBodies : FirstOrAfterAdd /\ AdminReload(b)
    \/ \E b \in ReadBodies : FirstOrAfterAdd /\ AdminState(b)
    \/ \E page \in AdminPages, b \in ReadBodies : pure = NoPure /\ AdminPage(page, b)
    \/ \E token \in AdminTokens, hdr \in AdminHeaders, query \in AdminQueries :
          pure = NoPure /\ AdminOk(token, hdr, query)
    \/ Tick

SpecAdmin == InitAdmin /\ [][NextAdmin]_vars

AddCalled == pure.fn = "admin_add"

\* effective_allowed_flags of evaluate_preflight for the policy file f
EffOf(f, p, sid, fg, t) == EffectiveAllowedFlags(Resolve(p), sid, fg, load_state(f).state, t)

\* C14: for a fixed global flag set, session and request, adding a rule to
\* the policy (POST /admin/allowlist/add) can only shrink or keep the
\* effective allowed flag set evaluate_preflight computes, never grow it,
\* and that set is always within the global flag set.
C14_AddingRuleNeverWidensFlags ==
    AddCalled =>
        \A p \in PolicyPaths, sid \in PolicySessions, fg \in PolicyGlobals :
            /\ EffOf(file, p, sid, fg, pure.t) \subseteq EffOf(pure.before, p, sid, fg, pure.t)
            /\ EffOf(file, p, sid, fg, pure.t) \subseteq fg

\* C14 witness: a rule was added to a policy that already had one, and for
\* some request the effective flag set became strictly smaller
C14_Witness ==
    /\ AddCalled /\ pure.error = "" /\ file # pure.before
    /\ Len(load_state(pure.before).state.rules) = 1
    /\ Len(load_state(file).state.rules) = 2
    /\ \E p \in PolicyPaths, fg \in PolicyGlobals :
          /\ EffOf(file, p, NoSession, fg, pure.t) # EffOf(pure.before, p, NoSession, fg, pure.t)
          /\ EffOf(file, p, NoSession, fg, pure.t) \subseteq EffOf(pure.before, p, NoSession, fg, pure.t)

\* C20: the policy document round-trips: for every PolicyState s the admin
\* operations build (rules with or without caps, overlays with id, createdAt
\* and optional selector, profiles), load_state after save_state(s) returns
\* s: after an accepted /admin/allowlist/add or /admin/session/profile the
\* file loads as the state the handler built, which holds the new rule or
\* overlay.
C20_SaveLoadRoundTrip ==
    /\ (AddCalled /\ pure.called) => load_state(file).state = pure.state
    /\ (pure.fn = "admin_session_profile" /\ pure.error = "") =>
          /\ ~pure.raised
          /\ Len(load_state(file).state.overlays) = Len(load_state(pure.before).state.overlays) + 1

\* the admin mutations: rule add, rule remove, overlay assign, overlay remove
AdminMutations == {"admin_add", "admin_remove", "admin_session_profile", "admin_overlay_remove"}

\* the last request was a mutation that passed its checks and went on to
\* write the policy document
ReachedWrite ==
    /\ pure.fn \in AdminMutations
    /\ pure.error \in {"", "persist_failed"}
    /\ ~pure.raised

\* C21: whenever writing the policy document fails during rule add, rule
\* remove, overlay assign or overlay remove, the endpoint answers
\* 'persist_failed'; whenever it answers ok=true, load_state of the file
\* returns the state the handler built, mutation included.
C21_PersistFailureReported ==
    ReachedWrite =>
        /\ SaveRaises(pure.state) => pure.error = "persist_failed"
        /\ pure.error = "" => load_state(file).state = pure.state

\* the ids of the rules of the policy state st
RuleIds(st) == {st.rules[i].id : i \in 1..Len(st.rules)}

\* the policy state the last admin request found in the file
StateBefore == load_state(pure.before).state

\* the last request was an accepted allowlist/add: the file holds the rules
\* it found followed by one rule with an id none of them has
AddAppendedOne ==
    /\ Len(load_state(file).state.rules) = Len(StateBefore.rules) + 1
    /\ SubSeq(load_state(file).state.rules, 1, Len(StateBefore.rules)) = StateBefore.rules
    /\ load_state(file).state.rules[Len(StateBefore.rules) + 1].id \notin RuleIds(StateBefore)
    /\ load_state(file).state.overlays = StateBefore.overlays
    /\ load_state(file).state.profiles = StateBefore.profiles

\* the last request was an accepted allowlist/remove of id X: exactly the
\* rules with that id are gone and counted, nothing else changed, and no
\* evaluation returns a rule with that id
RemoveTookExactly ==
    /\ load_state(file).state.rules = SelectSeq(StateBefore.rules, LAMBDA r : r.id # pure.body.id)
    /\ pure.removed = Cardinality({i \in 1..Len(StateBefore.rules) : StateBefore.rules[i].id = pure.body.id})
    /\ load_state(file).state.overlays = StateBefore.overlays
    /\ load_state(file).state.profiles = StateBefore.profiles
    /\ \A p \in PolicyPaths :
          \/ MatchedRule(load_state(file).state, Resolve(p), pure.t) = NoRule
          \/ MatchedRule(load_state(file).state, Resolve(p), pure.t).id # pure.body.id

\* C22: a successful allowlist/add appends exactly one rule with a fresh id
\* and leaves every existing rule, overlay and profile unchanged;
\* allowlist/remove with id X removes exactly the rules whose id is X,
\* reports their count and leaves the rest unchanged, and afterwards no
\* stored or matched rule has id X.
C22_RuleLifecycle ==
    /\ (pure.fn = "admin_add" /\ pure.error = "") => AddAppendedOne
    /\ (pure.fn = "admin_remove" /\ pure.error = "") => RemoveTookExactly

\* the body of a session/profile request names a session, a profile of the
\* store and no selector or one that exists inside the allowed root
ProfileRequestValid(b, st) ==
    /\ b.sessionId # NoSession /\ b.profile # ""
    /\ ProfileGet(st, b.profile) # NoProfile
    /\ b.path # <<>> => (Exists(b.path) /\ IsPrefix(AllowedRoot, Resolve(b.path)))
    /\ b.scopeRoot # <<>> => (IsDir(b.scopeRoot) /\ IsPrefix(AllowedRoot, Resolve(b.scopeRoot)))

\* C23: admin/session/profile with the admin token, a sessionId, a profile
\* of the store and an optional selector inside the allowed root answers
\* ok=true and appends exactly one overlay for that session, leaving rules,
\* profiles and the other overlays unchanged; with a missing sessionId or
\* profile, an unknown profile or a selector that does not exist or lies
\* outside the root it answers an error and leaves the policy unchanged.
C23_OverlayAssignment ==
    (pure.fn = "admin_session_profile" /\ BearerOk(pure.body.bearer)) =>
        IF ProfileRequestValid(pure.body, StateBefore)
        THEN /\ pure.error = "" /\ ~pure.raised
             /\ Len(load_state(file).state.overlays) = Len(StateBefore.overlays) + 1
             /\ SubSeq(load_state(file).state.overlays, 1, Len(StateBefore.overlays)) = StateBefore.overlays
             /\ load_state(file).state.overlays[Len(StateBefore.overlays) + 1].sessionId = pure.body.sessionId
             /\ load_state(file).state.rules = StateBefore.rules
             /\ load_state(file).state.profiles = StateBefore.profiles
        ELSE pure.error # "" /\ file = pure.before

\* every admin endpoint
AdminEndpoints ==
    AdminMutations \cup {"admin_reload", "admin_state"} \cup AdminPages

\* the request of the last _admin_ok call carries exactly the string s as
\* bearer token or as admin_token parameter
Carries(s) ==
    \/ pure.hdr.scheme = "Bearer" /\ pure.hdr.cred = s
    \/ pure.query.some /\ pure.query.v = s

\* the same, surrounding whitespace of the bearer token aside
CarriesStripped(s) ==
    \/ pure.hdr.scheme = "Bearer" /\ Strip(pure.hdr.cred) = s
    \/ pure.query.some /\ pure.query.v = s

\* an endpoint called without the configured token answers unauthorized
\* (401) and leaves the policy file as it was
RejectedUntouched ==
    (pure.fn \in AdminEndpoints /\ pure.body.bearer # AdminToken) =>
        (pure.error = "unauthorized" /\ file = pure.before)

\* C24 (as stated): every admin endpoint answers 401 and leaves the policy
\* store unchanged unless the request carries the value of TSM_ADMIN_TOKEN
\* as bearer token or admin_token parameter; with no token configured every
\* admin request is rejected.
C24_AdminNeedsExactToken ==
    /\ (pure.fn = "_admin_ok" /\ pure.out) => (pure.token # "" /\ Carries(pure.token))
    /\ RejectedUntouched

\* C24 (as amended): every admin endpoint answers 401 and leaves the policy
\* store unchanged unless the request carries the value of TSM_ADMIN_TOKEN,
\* surrounding whitespace aside, as bearer token or admin_token parameter;
\* with TSM_ADMIN_TOKEN unset or empty every admin request is rejected.
C24_AdminFailClosed ==
    /\ (pure.fn = "_admin_ok" /\ pure.out) => (pure.token # "" /\ CarriesStripped(Strip(pure.token)))
    /\ RejectedUntouched

\* C24 witness: a removal of a stored rule without the token is refused and
\* the rule stays
C24_Witness ==
    /\ pure.fn = "admin_remove" /\ pure.body.bearer = "" /\ pure.body.id = "r-base"
    /\ pure.error = "unauthorized"
    /\ "r-base" \in RuleIds(load_state(file).state)

-----------------------------------------------------------------------------
(* The session-preflight cache over time *)

\* milliseconds that pass in one step of the cache's clock, and the number
\* of such steps
CacheStepMs == 500
MaxCacheSteps == 5

InitCache ==
    /\ now = 0
    /\ enforce = TRUE
    /\ file = SeedDoc
    /\ prefCache = <<>>
    /\ held = NoToken
    /\ phase = "idle"
    /\ req = NoReq
    /\ resp = NoResp
    /\ loaded = load_state(MissingFile)
    /\ pure = NoPure
    /\ minted = 0
    /\ stream = NoStream
    /\ inflight = {}
    /\ client = NoClient
    /\ servers = NoServers

\* time passes between requests
Elapse ==
    /\ phase = "idle"
    /\ now + CacheStepMs <= MaxCacheSteps * CacheStepMs
    /\ now' = now + CacheStepMs
    /\ UNCHANGED <<enforce, file, prefCache, held, phase, req, resp, loaded, pure, minted, stream, inflight, client, servers>>

\* the client reads the answer and keeps no token: its runs rely on the
\* session cache
Discard ==
    /\ phase = "done"
    /\ phase' = "idle"
    /\ req' = NoReq
    /\ resp' = NoResp
    /\ UNCHANGED <<now, enforce, file, prefCache, held, loaded, pure, minted, stream, inflight, client, servers>>

NextCache ==
    \/ \E r \in RunRequests(NoToken) : RunRest(r)
    \/ \E r \in RunRequests(NoToken) : RunSse(r)
    \/ \E r \in RunRequests(NoToken) : RunMcp(r)
    \/ \E r \in CheckRequests : CheckRest(r)
    \/ \E r \in CheckRequests : CheckMcp(r)
    \/ Discard
    \/ Elapse

SpecCache == InitCache /\ [][NextCache]_vars

\* the session the gate uses for the run request r
GateSessionOf(r) == GateSession(r.sessH, r.sessB)

\* the run request just answered has a cache entry for its own (session,
\* path, args), recorded at the time returned
EntryOfRun == prefCache[_pref_key(GateSessionOf(req), req.path, req.args)]
HasEntryOfRun ==
    /\ GateSessionOf(req) # NoSession
    /\ _pref_key(GateSessionOf(req), req.path, req.args) \in DOMAIN prefCache

\* C25: a session-cache entry recorded at time t for (sessionId, path, args)
\* admits runs of that triple at every time up to t + TTL, and afterwards
\* they are rejected with 'preflight_expired'; an allowed check_script for
\* the triple sets the entry's time to the time of the check, which opens
\* the window again; a run without session id is never admitted by the
\* cache.
C25_SessionCacheTtl ==
    /\ (phase = "done" /\ req.op = "run") =>
          /\ (HasEntryOfRun /\ now <= EntryOfRun + TtlSec * 1000) => resp.gate = "pass"
          /\ (HasEntryOfRun /\ now > EntryOfRun + TtlSec * 1000) =>
                (resp.gate = "deny" /\ resp.message = "preflight_required: preflight_expired")
          /\ GateSessionOf(req) = NoSession => resp.gate = "deny"
    /\ (phase = "done" /\ req.op = "check" /\ resp.allowed /\ SessionOf(req) # NoSession) =>
          /\ _pref_key(SessionOf(req), req.path, req.args) \in DOMAIN prefCache
          /\ prefCache[_pref_key(SessionOf(req), req.path, req.args)] = now

\* C25 witness: a run at the last instant of the window, exactly TTL after
\* the entry was recorded, is admitted
C25_Witness ==
    /\ phase = "done" /\ req.op = "run" /\ HasEntryOfRun
    /\ EntryOfRun > 0
    /\ now = EntryOfRun + TtlSec * 1000
    /\ resp.gate = "pass"

-----------------------------------------------------------------------------
(* Argument validation and the allowed-flag list (policy.py) *)

MaxArgs == 3

\* the argument alphabet: flags, the separator, a number and a positional
ArgTokens == {"--smoke", "--port", "--host", "--", "--bad", "8080", "positional"}

ArgLists == UNION {[1..n -> ArgTokens] : n \in 0..MaxArgs}

\* values of TSM_ALLOWED_ARGS: unset, "--smoke", "--smoke:--host:--port",
\* "--smoke,--port", "--smoke,--port;--host", "--:--smoke", " --smoke: :--port"
ArgEnvs ==
    { <<>>,
      << <<"--smoke">> >>,
      << <<"--smoke">>, <<"--host">>, <<"--port">> >>,
      << <<"--smoke", "--port">> >>,
      << <<"--smoke", "--port">>, <<"--host">> >>,
      << <<"--">>, <<"--smoke">> >>,
      << <<"--smoke">>, <<>>, <<"--port">> >> }

InitArgs ==
    /\ now = 0
    /\ enforce = FALSE
    /\ file = MissingFile
    /\ prefCache = <<>>
    /\ held = NoToken
    /\ phase = "idle"
    /\ req = NoReq
    /\ resp = NoResp
    /\ loaded = load_state(MissingFile)
    /\ pure = NoPure
    /\ minted = 0
    /\ stream = NoStream
    /\ inflight = {}
    /\ client = NoClient
    /\ servers = NoServers

\* _validate_args(args) with TSM_ALLOWED_ARGS = env
ValidateArgs(env, args) ==
    /\ pure' = [fn |-> "_validate_args", env |-> env, args |-> args,
                out |-> _validate_args_env(args, env)]
    /\ UNCHANGED <<now, enforce, file, prefCache, held, phase, req, resp, loaded, minted, stream, inflight, client, servers>>

\* list_allowed_scripts() with TSM_ALLOWED_ARGS = env
ListAllowedScripts(env) ==
    /\ pure' = [fn |-> "list_allowed_scripts", env |-> env, out |-> list_allowed_scripts(env)]
    /\ UNCHANGED <<now, enforce, file, prefCache, held, phase, req, resp, loaded, minted, stream, inflight, client, servers>>

NextArgs ==
    \/ \E env \in ArgEnvs, args \in ArgLists : pure = NoPure /\ ValidateArgs(env, args)
    \/ \E env \in ArgEnvs : pure = NoPure /\ ListAllowedScripts(env)

SpecArgs == InitArgs /\ [][NextArgs]_vars

RECURSIVE ArgFault(_, _)
\* reading args from index i, flag by flag and value by value: a token
\* without leading dashes where a flag is expected, a value flag with no
\* value after it, or a --port whose value is not a number
ArgFault(args, i) ==
    IF i > Len(args) THEN FALSE
    ELSE IF ~StartsWithDashes(args[i]) THEN TRUE
    ELSE IF args[i] \in ValueFlags
         THEN \/ i + 1 > Len(args)
              \/ args[i] = "--port" /\ args[i + 1] \notin DigitTokens
              \/ ArgFault(args, i + 2)
    ELSE ArgFault(args, i + 1)

C27_CommaSeparatedFlags ==
    /\ pure.fn = "list_allowed_scripts" =>
          \A p \in AllowedScripts : pure.out[p] = Sorted(FlagsGlobal(pure.env))
    /\ (pure.fn = "_validate_args" /\ Len(pure.args) = 1 /\ StartsWithDashes(pure.args[1])
          /\ pure.args[1] \notin ValueFlags) =>
          (pure.out = "" <=> pure.args[1] \in FlagsGlobal(pure.env))

-----------------------------------------------------------------------------
(* stream_process (policy.py): the polling loop and the child process *)

\* seconds between two pings and the pause of one poll, in milliseconds
PingEveryMs == 5000
PollSleepMs == 50

MaxLines == 2
MaxStreamSteps == 4

StreamTimeouts == {PollSleepMs, 2 * PollSleepMs}
ExitCodes == {0, 3}

Ping(t) == [event |-> "ping", t |-> t \div 1000]
LineEvent(kind, n) == [event |-> kind, line |-> n]
EndEvent(code, dur) == [event |-> "end", exitCode |-> code, duration_ms |-> dur]
EndTruncated(dur) == [event |-> "end", exitCode |-> -1, duration_ms |-> dur, truncated |-> TRUE]
ErrorEvent == [event |-> "error", code |-> "E_EXEC"]

\* the generator just after Popen returned: the child runs, nothing is read;
\* last_ping = 0.0 is the Unix epoch, more than five seconds before any clock
\* reading, which pinged = FALSE stands for
Started(t) ==
    [pc |-> "top", start |-> now, now |-> now, last_ping |-> 0, pinged |-> FALSE,
     timeout_ms |-> t, events |-> <<>>, proc |-> "running", returncode |-> 0, exitedAt |-> 0,
     out |-> <<>>, err |-> <<>>, outOpen |-> TRUE, errOpen |-> TRUE, wroteOut |-> 0, wroteErr |-> 0]

InitStream ==
    /\ now = 0
    /\ enforce = FALSE
    /\ file = MissingFile
    /\ prefCache = <<>>
    /\ held = NoToken
    /\ phase = "idle"
    /\ req = NoReq
    /\ resp = NoResp
    /\ loaded = load_state(MissingFile)
    /\ pure = NoPure
    /\ minted = 0
    /\ stream = NoStream
    /\ inflight = {}
    /\ client = NoClient
    /\ servers = NoServers

\* subprocess.Popen succeeds
StartStream(t) ==
    /\ stream = NoStream
    /\ inflight = {}
    /\ client = NoClient
    /\ servers = NoServers
    /\ stream' = Started(t)
    /\ UNCHANGED <<now, enforce, file, prefCache, held, phase, req, resp, loaded, pure, minted, inflight, client, servers>>

\* subprocess.Popen raises: the except clause yields one error event
SpawnFails(t) ==
    /\ stream = NoStream
    /\ inflight = {}
    /\ client = NoClient
    /\ servers = NoServers
    /\ stream' = [Started(t) EXCEPT !.pc = "done", !.proc = "none", !.events = <<ErrorEvent>>]
    /\ UNCHANGED <<now, enforce, file, prefCache, held, phase, req, resp, loaded, pure, minted, inflight, client, servers>>

PingDue == ~stream.pinged \/ now - stream.last_ping > PingEveryMs

\* top of the loop: read the clock, ping when due
LoopTop ==
    /\ stream.pc = "top"
    /\ stream' = [stream EXCEPT !.pc = "poll", !.now = now,
                                !.events = IF PingDue THEN Append(@, Ping(now)) ELSE @,
                                !.last_ping = IF PingDue THEN now ELSE @,
                                !.pinged = TRUE]
    /\ UNCHANGED <<now, enforce, file, prefCache, held, phase, req, resp, loaded, pure, minted, inflight, client, servers>>

\* proc.poll(): leave the loop when the child has ended
Poll ==
    /\ stream.pc = "poll"
    /\ stream' = [stream EXCEPT !.pc = IF stream.proc = "running" THEN "out" ELSE "end"]
    /\ UNCHANGED <<now, enforce, file, prefCache, held, phase, req, resp, loaded, pure, minted, inflight, client, servers>>

\* proc.stdout.readline(): returns a line when one is buffered, '' at end of
\* file, and blocks otherwise
ReadOut ==
    /\ stream.pc = "out"
    /\ stream.out # <<>> \/ ~stream.outOpen
    /\ stream' = IF stream.out # <<>>
                 THEN [stream EXCEPT !.events = Append(@, LineEvent("stdout", Head(stream.out))),
                                     !.out = Tail(@)]
                 ELSE [stream EXCEPT !.pc = "err"]
    /\ UNCHANGED <<now, enforce, file, prefCache, held, phase, req, resp, loaded, pure, minted, inflight, client, servers>>

\* proc.stderr.readline()
ReadErr ==
    /\ stream.pc = "err"
    /\ stream.err # <<>> \/ ~stream.errOpen
    /\ stream' = IF stream.err # <<>>
                 THEN [stream EXCEPT !.events = Append(@, LineEvent("stderr", Head(stream.err))),
                                     !.err = Tail(@)]
                 ELSE [stream EXCEPT !.pc = "check"]
    /\ UNCHANGED <<now, enforce, file, prefCache, held, phase, req, resp, loaded, pure, minted, inflight, client, servers>>

\* the generator waits inside readline
Blocked ==
    \/ stream.pc = "out" /\ stream.out = <<>> /\ stream.outOpen
    \/ stream.pc = "err" /\ stream.err = <<>> /\ stream.errOpen

\* the timeout test, on the clock reading taken at the top of the loop:
\* proc.kill() and the truncated end event, or on to the pause
CheckTimeout ==
    /\ stream.pc = "check"
    /\ stream' = IF stream.now - stream.start > stream.timeout_ms
                 THEN [stream EXCEPT !.pc = "done",
                                     !.proc = IF @ = "running" THEN "killed" ELSE @,
                                     !.outOpen = FALSE, !.errOpen = FALSE,
                                     !.events = Append(@, EndTruncated(now - stream.start))]
                 ELSE [stream EXCEPT !.pc = "sleep"]
    /\ UNCHANGED <<now, enforce, file, prefCache, held, phase, req, resp, loaded, pure, minted, inflight, client, servers>>

\* time.sleep(0.05)
Sleep ==
    /\ stream.pc = "sleep"
    /\ now < MaxStreamSteps * PollSleepMs
    /\ now' = now + PollSleepMs
    /\ stream' = [stream EXCEPT !.pc = "top"]
    /\ UNCHANGED <<enforce, file, prefCache, held, phase, req, resp, loaded, pure, minted, inflight, client, servers>>

\* time passes while readline blocks
BlockedWait ==
    /\ Blocked
    /\ now < MaxStreamSteps * PollSleepMs
    /\ now' = now + PollSleepMs
    /\ UNCHANGED <<enforce, file, prefCache, held, phase, req, resp, loaded, pure, minted, stream, inflight, client, servers>>

\* after the loop: the end event with proc.returncode or 0
StreamEnd ==
    /\ stream.pc = "end"
    /\ stream' = [stream EXCEPT !.pc = "done",
                                !.events = Append(@, EndEvent(stream.returncode, now - stream.start))]
    /\ UNCHANGED <<now, enforce, file, prefCache, held, phase, req, resp, loaded, pure, minted, inflight, client, servers>>

ChildRuns == stream.pc \notin {"none", "done"} /\ stream.proc = "running"

\* the child writes one line to its stdout
ProcWriteOut ==
    /\ ChildRuns /\ stream.outOpen /\ stream.wroteOut < MaxLines
    /\ stream' = [stream EXCEPT !.out = Append(@, stream.wroteOut + 1), !.wroteOut = @ + 1]
    /\ UNCHANGED <<now, enforce, file, prefCache, held, phase, req, resp, loaded, pure, minted, inflight, client, servers>>

\* the child writes one line to its stderr
ProcWriteErr ==
    /\ ChildRuns /\ stream.errOpen /\ stream.wroteErr < MaxLines
    /\ stream' = [stream EXCEPT !.err = Append(@, stream.wroteErr + 1), !.wroteErr = @ + 1]
    /\ UNCHANGED <<now, enforce, file, prefCache, held, phase, req, resp, loaded, pure, minted, inflight, client, servers>>

\* the child closes its stdout and runs on
ProcCloseOut ==
    /\ ChildRuns /\ stream.outOpen
    /\ stream' = [stream EXCEPT !.outOpen = FALSE]
    /\ UNCHANGED <<now, enforce, file, prefCache, held, phase, req, resp, loaded, pure, minted, inflight, client, servers>>

\* the child closes its stderr and runs on
ProcCloseErr ==
    /\ ChildRuns /\ stream.errOpen
    /\ stream' = [stream EXCEPT !.errOpen = FALSE]
    /\ UNCHANGED <<now, enforce, file, prefCache, held, phase, req, resp, loaded, pure, minted, inflight, client, servers>>

\* the child exits on its own, which closes both pipes
ProcExit(code) ==
    /\ ChildRuns
    /\ stream' = [stream EXCEPT !.proc = "exited", !.returncode = code, !.exitedAt = now,
                                !.outOpen = FALSE, !.errOpen = FALSE]
    /\ UNCHANGED <<now, enforce, file, prefCache, held, phase, req, resp, loaded, pure, minted, inflight, client, servers>>

NextStream ==
    \/ \E t \in StreamTimeouts : StartStream(t)
    \/ \E t \in StreamTimeouts : SpawnFails(t)
    \/ LoopTop
    \/ Poll
    \/ ReadOut
    \/ ReadErr
    \/ CheckTimeout
    \/ Sleep
    \/ BlockedWait
    \/ StreamEnd
    \/ ProcWriteOut
    \/ ProcWriteErr
    \/ ProcCloseOut
    \/ ProcCloseErr
    \/ \E code \in ExitCodes : ProcExit(code)

SpecStream == InitStream /\ [][NextStream]_vars

StreamDone == stream.pc = "done"

EventsOf(kind) == SelectSeq(stream.events, LAMBDA e : e.event = kind)

Terminal(e) == e.event \in {"end", "error"}

LastEvent == stream.events[Len(stream.events)]

\* the end of the time the stream may give the child, one pause of the
\* polling loop included
Deadline == stream.start + stream.timeout_ms + PollSleepMs

\* C28: when the script is still running after timeout_ms, the stream kills
\* it and ends with exactly one end event with exitCode -1 and truncated =
\* true; the stream never waits for the process to finish on its own.
C28_StreamTimeout ==
    /\ (stream.pc \notin {"none", "done"} /\ Blocked) => now <= Deadline
    /\ (StreamDone /\ stream.proc = "exited" /\ stream.exitedAt > Deadline) =>
          /\ Len(EventsOf("end")) = 1
          /\ LastEvent.event = "end"
          /\ LastEvent.exitCode = -1
          /\ "truncated" \in DOMAIN LastEvent /\ LastEvent.truncated

\* C29: for a process that exits on its own (within its time), whatever the
\* interleaving of its writes and exit with the polling loop, the stream has
\* one stdout event per line written to stdout and one stderr event per line
\* written to stderr, then exactly one terminal event, the end event with
\* the exit code, and nothing after it.
C29_StreamComplete ==
    (StreamDone /\ stream.proc = "exited"
        /\ stream.exitedAt <= stream.start + stream.timeout_ms) =>
        /\ EventsOf("stdout") = [n \in 1..stream.wroteOut |-> LineEvent("stdout", n)]
        /\ EventsOf("stderr") = [n \in 1..stream.wroteErr |-> LineEvent("stderr", n)]
        /\ Len(SelectSeq(stream.events, Terminal)) = 1
        /\ LastEvent = EndEvent(stream.returncode, LastEvent.duration_ms)

-----------------------------------------------------------------------------
(* The Evaluator and the Capability Resolver select alike *)

\* the rule evaluate_preflight reports as matched for the path and session
\* of the observed effective_caps_for call, on the same policy at the same
\* time
EvaluatorRule ==
    evaluate_preflight(pure.path, <<>>, pure.session_id, AllowedRoot, flags_global,
                       load_state(file).state, pure.t).matchedRule

\* the overlay whose profile evaluate_preflight lets narrow the flags
EvaluatorOverlay == SessionOverlay(load_state(file).state, pure.session_id, pure.t)

\* C30: for every policy state, path under the allowed root, session id and
\* time, the rule matched by evaluate_preflight is the rule whose caps
\* effective_caps_for uses, and the overlay whose profile narrows the flags
\* is the overlay whose profile supplies the caps.
C30_SameSelection ==
    (CapsCalled /\ _is_under_root(Resolve(pure.path), AllowedRoot)) =>
        /\ CapsMatched(load_state(file).state, Resolve(pure.path), pure.t) = EvaluatorRule
        /\ CapsOverlay(load_state(file).state, pure.session_id, pure.t) = EvaluatorOverlay
        /\ pure.out = CombineCaps(OverlayCaps(OverlayProfile(load_state(file).state, EvaluatorOverlay)),
                                  RuleCaps(EvaluatorRule))

\* two rules match the path: the first one, not the second, gives the caps
C30_Witness ==
    /\ CapsCalled /\ Len(load_state(file).state.rules) = 2
    /\ RuleMatches(load_state(file).state.rules[1], Resolve(pure.path), pure.t)
    /\ RuleMatches(load_state(file).state.rules[2], Resolve(pure.path), pure.t)
    /\ load_state(file).state.rules[1].caps # load_state(file).state.rules[2].caps
    /\ EvaluatorRule = load_state(file).state.rules[1]
    /\ pure.out = CombineCaps(NoCaps, EvaluatorRule.caps)

-----------------------------------------------------------------------------
(* The three run entry points *)

\* what a run request came to: the gate, validation, the run and its limits
RunOutcome(a) ==
    <<a.gate, a.validated, a.ran, a.error, a.message, a.timeout_ms, a.max_output_bytes>>

\* the run request r arriving with X-TSM-Session: h instead of its header
WithHeader(r, h) == [r EXCEPT !.sessH = h]

RunBy(via, r) ==
    IF via = "rest" THEN http_run_script(r, prefCache, enforce, file, now)
    ELSE IF via = "sse" THEN http_run_script_stream(r, prefCache, enforce, file, now)
    ELSE mcp_run_script(r, prefCache, enforce, file, now)

\* C31: the REST, SSE and MCP run entry points reach the same gate outcome,
\* validation outcome and clamped limits for the same path, args, token,
\* session and policy, and in each of them a sessionId of the body, query or
\* tool arguments takes precedence over the X-TSM-Session header, for the
\* gate and for the caps.
C31_RunEntryPointsAgree ==
    (phase = "done" /\ req.op = "run") =>
        /\ \A via \in {"rest", "sse", "mcp"} : RunOutcome(RunBy(via, req)) = RunOutcome(resp)
        /\ req.sessB # NoSession =>
              \A via \in {"rest", "sse", "mcp"}, h \in {NoSession, "s1", "s2"} :
                  RunOutcome(RunBy(via, WithHeader(req, h))) = RunOutcome(resp)

\* a run naming session s2 under the header of s1: s1's fresh cache entry
\* does not open the gate
C31_Witness ==
    /\ phase = "done" /\ req.op = "run" /\ enforce
    /\ req.sessH = "s1" /\ req.sessB = "s2" /\ req.token = NoToken
    /\ FreshEntry(prefCache, "s1", req.path, req.args, now)
    /\ resp.gate = "deny"

-----------------------------------------------------------------------------
(* Overlay removal *)

\* the members of a stored document
DocRules(f) == IF f.kind = "json" /\ f.top = "object" THEN CollItems(f.rules) ELSE <<>>
DocOverlays(f) == IF f.kind = "json" /\ f.top = "object" THEN CollItems(f.overlays) ELSE <<>>
DocProfiles(f) == IF f.kind = "json" /\ f.top = "object" THEN CollItems(f.profiles) ELSE <<>>

\* the stored overlays carrying the id
OverlaysWithId(f, id) ==
    SelectSeq(DocOverlays(f), LAMBDA o : o.obj /\ "id" \in DOMAIN o /\ o.id = id)

\* C32: after overlay/remove with id X has answered ok, no stored overlay has
\* id X, the count reported is the number of overlays that had it, rules,
\* profiles and the other overlays are as before, and with a session-wide
\* overlay (large profile) and a scoped overlay (tiny profile) on one session,
\* removing the scoped one leaves a script in that scope the caps of the
\* large profile.
C32_OverlayRemoval ==
    (pure.fn = "admin_overlay_remove" /\ pure.error = "") =>
        /\ OverlaysWithId(file, pure.body.id) = <<>>
        /\ pure.removed = Len(OverlaysWithId(pure.before, pure.body.id))
        /\ Len(DocOverlays(file)) = Len(DocOverlays(pure.before)) - pure.removed
        /\ Len(DocRules(file)) = Len(DocRules(pure.before))
        /\ \A i \in 1..Len(DocRules(file)) : DocRules(file)[i].id = DocRules(pure.before)[i].id
        /\ Len(DocProfiles(file)) = Len(DocProfiles(pure.before))
        /\ (pure.before = MultiOverlayDoc /\ pure.body.id = "ovr-2") =>
              effective_caps_for(ScriptA, "s1", AllowedRoot, load_state(file).state, now)
                  = _to_caps(LargeCaps)


-----------------------------------------------------------------------------
(* Concurrent requests.  The server is one uvicorn process with one event  *)
(* loop (main, app.py 1843-1849).  A handler is a coroutine whose only     *)
(* suspension point is `await request.json()` at its start; from there to  *)
(* its return it runs without yielding.  A request is in flight from its   *)
(* arrival until the loop runs that synchronous body, and the bodies of    *)
(* the requests in flight run one at a time, in any order.                 *)

MaxInflight == 2

\* requests of the other clients
OtherRequests ==
    {Request("check", "rest", ScriptA, <<>>, NoToken, "s1", NoSession, NoTimeout),
     Request("check", "mcp", AliasA, <<>>, NoToken, "s1", NoSession, NoTimeout),
     Request("check", "rest", ScriptA, <<>>, NoToken, NoSession, "s2", NoTimeout),
     Request("check", "rest", ScriptA, <<"--bad">>, NoToken, "s1", NoSession, NoTimeout),
     Request("run", "rest", ScriptA, <<>>, NoToken, "s1", NoSession, NoTimeout)}

\* the observed client's two requests: check_script, then run_script for the
\* same (sessionId, path, args) and no token
ClientCheckReq(via) == Request("check", via, ScriptA, <<>>, NoToken, "s1", NoSession, NoTimeout)
ClientRunReq(via) == Request("run", via, ScriptA, <<>>, NoToken, "s1", NoSession, NoTimeout)

InFlight(r, from) == [r |-> r, from |-> from]

InitConc ==
    /\ now = 0
    /\ enforce = TRUE
    /\ file = SeedDoc
    /\ prefCache = <<>>
    /\ held = NoToken
    /\ phase = "idle"
    /\ req = NoReq
    /\ resp = NoResp
    /\ loaded = load_state(MissingFile)
    /\ pure = NoPure
    /\ minted = 0
    /\ stream = NoStream
    /\ inflight = {}
    /\ client = NoClient
    /\ servers = NoServers

\* a request of another client arrives
Arrive(r) ==
    /\ Cardinality(inflight) < MaxInflight
    /\ inflight' = inflight \cup {InFlight(r, "other")}
    /\ UNCHANGED <<now, enforce, file, prefCache, held, phase, req, resp, loaded, pure, minted, stream, client, servers>>

\* the observed client sends check_script
ClientCheck(via) ==
    /\ client.stage = "start"
    /\ Cardinality(inflight) < MaxInflight
    /\ inflight' = inflight \cup {InFlight(ClientCheckReq(via), "client")}
    /\ client' = [stage |-> "checking"]
    /\ UNCHANGED <<now, enforce, file, prefCache, held, phase, req, resp, loaded, pure, minted, stream, servers>>

\* having been answered allowed=true, the observed client sends run_script
ClientRun(via) ==
    /\ client.stage = "checked" /\ client.allowed
    /\ Cardinality(inflight) < MaxInflight
    /\ inflight' = inflight \cup {InFlight(ClientRunReq(via), "client")}
    /\ client' = [client EXCEPT !.stage = "running"]
    /\ UNCHANGED <<now, enforce, file, prefCache, held, phase, req, resp, loaded, pure, minted, stream, servers>>

\* the client of x learns the answer of its check_script
Checked(x, answer) ==
    IF x.from = "client" THEN [stage |-> "checked", allowed |-> answer.allowed, t |-> now]
    ELSE client

\* the client of x learns the answer of its run_script
Ran(x, answer) ==
    IF x.from = "client"
    THEN [stage |-> "done", allowed |-> client.allowed, t |-> client.t,
          tRun |-> now, gate |-> answer.gate]
    ELSE client

\* the body of http_check_script runs for the request x in flight
ServeCheckRest(x) ==
    /\ x \in inflight /\ x.r.op = "check" /\ x.r.via = "rest"
    /\ req' = x.r
    /\ \E out \in {http_check_script(x.r, prefCache, file, now)} :
          resp' = out.answer /\ prefCache' = out.cache /\ client' = Checked(x, out.answer)
    /\ inflight' = inflight \ {x}
    /\ UNCHANGED <<now, enforce, file, held, phase, loaded, pure, minted, stream, servers>>

\* the check_script branch of mcp_endpoint runs for x
ServeCheckMcp(x) ==
    /\ x \in inflight /\ x.r.op = "check" /\ x.r.via = "mcp"
    /\ req' = x.r
    /\ \E out \in {mcp_check_script(x.r, prefCache, file, now)} :
          resp' = out.answer /\ prefCache' = out.cache /\ client' = Checked(x, out.answer)
    /\ inflight' = inflight \ {x}
    /\ UNCHANGED <<now, enforce, file, held, phase, loaded, pure, minted, stream, servers>>

\* the body of http_run_script runs for x
ServeRunRest(x) ==
    /\ x \in inflight /\ x.r.op = "run" /\ x.r.via = "rest"
    /\ req' = x.r
    /\ resp' = http_run_script(x.r, prefCache, enforce, file, now)
    /\ client' = Ran(x, resp')
    /\ inflight' = inflight \ {x}
    /\ UNCHANGED <<now, enforce, file, prefCache, held, phase, loaded, pure, minted, stream, servers>>

\* http_run_script_stream runs for x
ServeRunSse(x) ==
    /\ x \in inflight /\ x.r.op = "run" /\ x.r.via = "sse"
    /\ req' = x.r
    /\ resp' = http_run_script_stream(x.r, prefCache, enforce, file, now)
    /\ client' = Ran(x, resp')
    /\ inflight' = inflight \ {x}
    /\ UNCHANGED <<now, enforce, file, prefCache, held, phase, loaded, pure, minted, stream, servers>>

\* the run_script branch of mcp_endpoint runs for x
ServeRunMcp(x) ==
    /\ x \in inflight /\ x.r.op = "run" /\ x.r.via = "mcp"
    /\ req' = x.r
    /\ resp' = mcp_run_script(x.r, prefCache, enforce, file, now)
    /\ client' = Ran(x, resp')
    /\ inflight' = inflight \ {x}
    /\ UNCHANGED <<now, enforce, file, prefCache, held, phase, loaded, pure, minted, stream, servers>>

NextConc ==
    \/ \E r \in OtherRequests : Arrive(r)
    \/ \E via \in {"rest", "mcp"} : ClientCheck(via)
    \/ \E via \in {"rest", "sse", "mcp"} : ClientRun(via)
    \/ \E x \in inflight : ServeCheckRest(x)
    \/ \E x \in inflight : ServeCheckMcp(x)
    \/ \E x \in inflight : ServeRunRest(x)
    \/ \E x \in inflight : ServeRunSse(x)
    \/ \E x \in inflight : ServeRunMcp(x)
    \/ Tick

SpecConc == InitConc /\ [][NextConc]_vars

\* a step leaves each cache entry alone, or it is a check_script that evaluated
\* allowed=true for the entry's (sessionId, path, args) and wrote the time
CacheStep ==
    /\ DOMAIN prefCache \subseteq DOMAIN prefCache'
    /\ \A k \in DOMAIN prefCache' :
          \/ k \in DOMAIN prefCache /\ prefCache'[k] = prefCache[k]
          \/ /\ req'.op = "check" /\ resp'.allowed
             /\ k = _pref_key(SessionOf(req'), req'.path, req'.args)
             /\ prefCache'[k] = now

\* the observed client's run_script, served within the TTL of its allowed
\* check_script, passed the gate
CheckThenRunAdmitted ==
    (client.stage = "done" /\ client.tRun - client.t <= TtlSec * 1000) => client.gate = "pass"

\* C33: under concurrent check_script and run_script requests every key of
\* the session-preflight cache holds either no entry or the timestamp written
\* by a completed check_script that evaluated allowed=true for exactly that
\* (sessionId, path, args), and a client's check-then-run sequence is admitted
\* whatever requests of other clients are served in between.
C33_CacheConsistent == [][CacheStep]_vars /\ []CheckThenRunAdmitted

\* the observed client was admitted although another client's check_script
\* for the same key was served after its own and rewrote the entry
C33_Witness ==
    /\ client.stage = "done" /\ client.gate = "pass"
    /\ client.tRun - client.t <= TtlSec * 1000
    /\ prefCache[_pref_key("s1", ScriptA, <<>>)] > client.t
    /\ _pref_key("s2", ScriptA, <<>>) \in DOMAIN prefCache


-----------------------------------------------------------------------------
(* The signing secret of an instance (_get_secret, app.py 87-105)           *)

Instances == {"A", "B"}

\* TSM_PREFLIGHT_SECRET of a process: unset (or empty), or a configured text
NoEnvSecret == ""
EnvSecrets == {NoEnvSecret, "k_conf1", "k_conf2"}

\* _PREFLIGHT_SECRET = None
NoSecret == [none |-> TRUE]

\* env.encode('utf-8') of a configured TSM_PREFLIGHT_SECRET
EnvKey(env) == [text |-> env]

\* os.urandom(32) of instance i, its n-th draw: 32 bytes no other draw gives
Urandom(i, n) == [urandom |-> i, draw |-> n]

\* _get_secret drawing its key anew at every call
_get_secret_NoCache(i, sv) ==
    IF sv.env # NoEnvSecret THEN [sv EXCEPT !.secret = EnvKey(sv.env)]
    ELSE [sv EXCEPT !.secret = Urandom(i, sv.drawn + 1), !.drawn = @ + 1]

\* _get_secret() on instance i in state sv: the state afterwards, whose
\* secret member is the key returned
_get_secret(i, sv) ==
    IF sv.secret # NoSecret THEN sv
    ELSE IF sv.env # NoEnvSecret THEN [sv EXCEPT !.secret = EnvKey(sv.env)]
    ELSE [sv EXCEPT !.secret = Urandom(i, sv.drawn + 1), !.drawn = @ + 1]

\* arguments lists and paths the tokens are made and verified for
SecretPaths == {ScriptA, GoneA}
SecretArgs == {<<>>, <<"--smoke">>}

InitSecret ==
    /\ now = 0
    /\ enforce = TRUE
    /\ file = SeedDoc
    /\ prefCache = <<>>
    /\ held = NoToken
    /\ phase = "idle"
    /\ req = NoReq
    /\ resp = NoResp
    /\ loaded = load_state(MissingFile)
    /\ pure = NoPure
    /\ minted = 0
    /\ stream = NoStream
    /\ inflight = {}
    /\ client = NoClient
    /\ servers \in {[i \in Instances |-> [env |-> e[i], secret |-> NoSecret, drawn |-> 0,
                                          issued |-> NoToken]] : e \in [Instances -> EnvSecrets]}

\* instance i issues a token for (p, a): make_preflight_token
InstanceIssues(i, p, a) ==
    /\ pure = NoPure
    /\ \E sv \in {_get_secret(i, servers[i])} :
          servers' = [servers EXCEPT ![i] =
                         [sv EXCEPT !.issued = make_preflight_token_by(sv.secret, p, a, now, TtlSec).preflightToken]]
    /\ UNCHANGED <<now, enforce, file, prefCache, held, phase, req, resp, loaded, pure, minted, stream, inflight, client>>

\* instance j verifies for (p, a) the token instance i issued last:
\* verify_preflight_token
InstanceVerifies(j, i, p, a) ==
    /\ pure = NoPure
    /\ servers[i].issued # NoToken
    /\ \E sv \in {_get_secret(j, servers[j])} :
          /\ servers' = [servers EXCEPT ![j] = sv]
          /\ pure' = [fn |-> "verify_preflight_token", at |-> j, from |-> i,
                      token |-> servers[i].issued, path |-> p, args |-> a, t |-> now,
                      out |-> verify_preflight_token_by(sv.secret, servers[i].issued, p, a, now)]
    /\ UNCHANGED <<now, enforce, file, prefCache, held, phase, req, resp, loaded, minted, stream, inflight, client>>

NextSecret ==
    \/ \E i \in Instances, p \in SecretPaths, a \in SecretArgs : InstanceIssues(i, p, a)
    \/ \E j \in Instances, i \in Instances, p \in SecretPaths, a \in SecretArgs : InstanceVerifies(j, i, p, a)
    \/ pure = NoPure /\ Tick

SpecSecret == InitSecret /\ [][NextSecret]_vars

\* once _get_secret has returned a key on an instance, the instance keeps it
SecretFixed ==
    \A i \in Instances : servers[i].secret # NoSecret => servers'[i].secret = servers[i].secret

\* the token verified last is unexpired and was made for the path and args
\* it is verified for
Presentable ==
    /\ _now_ts(pure.t) <= pure.token[2].obj.exp
    /\ _normalize_path(pure.path) = pure.token[2].obj.p
    /\ _args_hash(pure.args) = pure.token[2].obj.ah

\* the verdicts on the token verified last
CrossInstanceVerdict ==
    pure.fn = "verify_preflight_token" =>
       /\ (pure.at = pure.from /\ Presentable) => pure.out = VerifyOk
       /\ (pure.at # pure.from
             /\ (servers[pure.at].env = NoEnvSecret \/ servers[pure.from].env = NoEnvSecret))
            => pure.out = VerifyFail("invalid")
       /\ (pure.at # pure.from /\ servers[pure.at].env # NoEnvSecret
             /\ servers[pure.at].env = servers[pure.from].env /\ Presentable)
            => pure.out = VerifyOk

\* C34: the signing secret of an instance is fixed for its life; without
\* TSM_PREFLIGHT_SECRET a token issued by one instance is rejected as
\* 'invalid' by another instance, and with the same configured secret on
\* both it is accepted.
C34_SecretPerInstance == [][SecretFixed]_vars /\ []CrossInstanceVerdict

\* neither A nor B has a configured secret, and B rejected as 'invalid' a
\* token of A that A itself accepts at that moment
C34_Witness ==
    /\ pure.fn = "verify_preflight_token" /\ pure.at = "B" /\ pure.from = "A"
    /\ servers["A"].env = NoEnvSecret /\ servers["B"].env = NoEnvSecret
    /\ Presentable
    /\ verify_preflight_token_by(servers["A"].secret, pure.token, pure.path, pure.args, now) = VerifyOk
    /\ pure.out = VerifyFail("invalid")


-----------------------------------------------------------------------------
(* One token, many runs, a policy that changes                              *)

MaxRuns == 3

\* a rule that denies --smoke for script A
RuleDenySmoke == RuleJ("r-deny", "path", ScriptA, <<>>, <<>>, <<>>, <<"--smoke">>, CapsAbsent, NoExpiry)

\* the policy files the operator moves between
ReuseDocs ==
    { MissingFile, SeedDoc,
      Doc(JInt(1), Coll("list", <<RuleDenySmoke>>), Coll("list", <<>>), ProfilesJ),
      Doc(JInt(1), Coll("list", <<RuleOldA>>),
          Coll("list", <<SessionWideAt("s1", "tiny", IsoAt(1400))>>), ProfilesJ) }

InitReuse ==
    /\ now = 0
    /\ enforce = TRUE
    /\ file \in ReuseDocs
    /\ prefCache = <<>>
    /\ held = NoToken
    /\ phase = "idle"
    /\ req = NoReq
    /\ resp = NoResp
    /\ loaded = load_state(MissingFile)
    /\ pure = NoPure
    /\ minted = 0
    /\ stream = NoStream
    /\ inflight = {}
    /\ client = NoClient
    /\ servers = NoServers

\* the client calls check_script without a session and keeps the token of an
\* allowed answer
ObtainToken(r) ==
    /\ client.stage = "start"
    /\ req' = r
    /\ \E out \in {IF r.via = "rest" THEN http_check_script(r, prefCache, file, now)
                   ELSE mcp_check_script(r, prefCache, file, now)} :
          /\ resp' = out.answer
          /\ prefCache' = out.cache
          /\ held' = out.answer.preflightToken
          /\ client' = IF out.answer.allowed
                       THEN [stage |-> "token", doc |-> file, runs |-> 0, last |-> "none", t |-> now]
                       ELSE client
    /\ UNCHANGED <<now, enforce, file, phase, loaded, pure, minted, stream, inflight, servers>>

\* the client calls run_script with the token it holds, for the path and
\* the args the token was issued for
RunWithToken(via) ==
    /\ client.stage = "token" /\ client.runs < MaxRuns
    /\ req' = Request("run", via, req.path, req.args, held, NoSession, NoSession, NoTimeout)
    /\ resp' = RunBy(via, req')
    /\ client' = [client EXCEPT !.runs = @ + 1, !.last = resp'.gate, !.t = now]
    /\ UNCHANGED <<now, enforce, file, prefCache, held, phase, loaded, pure, minted, stream, inflight, servers>>

\* the policy file is replaced: rules and overlays added or removed
ChangePolicy(d) ==
    /\ d # file
    /\ file' = d
    /\ UNCHANGED <<now, enforce, prefCache, held, phase, req, resp, loaded, pure, minted, stream, inflight, client, servers>>

NextReuse ==
    \/ \E r \in {Request("check", via, ScriptA, a, NoToken, NoSession, NoSession, NoTimeout) :
                    via \in {"rest", "mcp"}, a \in {<<>>, <<"--smoke">>}} : ObtainToken(r)
    \/ \E via \in {"rest", "sse", "mcp"} : RunWithToken(via)
    \/ \E d \in ReuseDocs : ChangePolicy(d)
    \/ Tick

SpecReuse == InitReuse /\ [][NextReuse]_vars

\* a run_script with the token leaves the token, the session cache and the
\* policy file as they were
RunKeepsState ==
    (client.stage = "token" /\ client'.stage = "token" /\ client' # client)
        => UNCHANGED <<held, prefCache, file, servers>>

\* the gate passed the last run with the token exactly if the token had not
\* expired
TokenVerdict ==
    (client.stage = "token" /\ client.last # "none")
        => (client.last = "pass" <=> _now_ts(client.t) <= held[2].obj.exp)

\* C35: the gate's verdict on a token depends on the token, the secret, the
\* time and the request's (path, args) only: a run with the token changes
\* nothing, the same token is accepted run after run until it expires, and
\* no change of the rules and overlays after its issue changes the verdict.
C35_TokenIndependentOfPolicy == [][RunKeepsState]_vars /\ []TokenVerdict

\* the third run with one token passed the gate under a policy file that is
\* not the one the token was issued under and that no longer allows the call
C35_Witness ==
    /\ client.stage = "token" /\ client.runs = 3 /\ client.last = "pass"
    /\ file # client.doc
    /\ ~evaluate_preflight(req.path, req.args, NoSession, AllowedRoot, flags_global,
                           load_state(file).state, now).allowed


-----------------------------------------------------------------------------
(* The keys of the session-preflight cache (_pref_key, app.py 248-255)      *)

\* session ids, paths and argument lists a client may send; among them
\* texts that hold the separators ':::' and U+0001 of the key
KeySessions == {"s1", "s2", "s1" \o ":::" \o PathStr(ScriptA) \o ":::" \o "y"}
KeyPaths == {ScriptA, AliasA, ScriptB}
KeyArgs ==
    { <<>>, <<"x">>, <<"z">>, <<"x", "--bad">>, <<"x" \o SOH \o "--bad">>,
      <<"y" \o ":::" \o PathStr(ScriptB) \o ":::" \o "z">> }

KeyChecks ==
    {Request("check", via, p, a, NoToken, NoSession, s, NoTimeout) :
        via \in {"rest", "mcp"}, p \in KeyPaths, a \in KeyArgs, s \in KeySessions}

KeyRuns ==
    {Request("run", via, p, a, NoToken, NoSession, s, NoTimeout) :
        via \in {"rest", "sse", "mcp"}, p \in KeyPaths, a \in KeyArgs, s \in KeySessions}

InitKeys ==
    /\ now = 0
    /\ enforce = TRUE
    /\ file = MissingFile
    /\ prefCache = <<>>
    /\ held = NoToken
    /\ phase = "idle"
    /\ req = NoReq
    /\ resp = NoResp
    /\ loaded = load_state(MissingFile)
    /\ pure = NoPure
    /\ minted = 0
    /\ stream = NoStream
    /\ inflight = {}
    /\ client = NoClient
    /\ servers = NoServers

\* the one check_script of the behaviour; when it allows, pure keeps the
\* triple _record_pref was called with
KeyCheck(r) ==
    /\ pure = NoPure /\ phase = "idle"
    /\ req' = r
    /\ \E out \in {IF r.via = "rest" THEN http_check_script(r, prefCache, file, now)
                   ELSE mcp_check_script(r, prefCache, file, now)} :
          /\ resp' = out.answer
          /\ prefCache' = out.cache
          /\ pure' = IF out.answer.allowed
                     THEN [fn |-> "_record_pref", session_id |-> SessionOf(r),
                           path |-> Resolve(r.path), args |-> r.args]
                     ELSE [fn |-> "check_script"]
    /\ UNCHANGED <<now, enforce, file, held, phase, loaded, minted, stream, inflight, client, servers>>

\* a run_script without token
KeyRun(r) ==
    /\ pure # NoPure /\ phase = "idle"
    /\ req' = r
    /\ resp' = RunBy(r.via, r)
    /\ phase' = "done"
    /\ UNCHANGED <<now, enforce, file, prefCache, held, loaded, pure, minted, stream, inflight, client, servers>>

NextKeys ==
    \/ \E r \in KeyChecks : KeyCheck(r)
    \/ \E r \in KeyRuns : KeyRun(r)
    \/ Reply
    \/ Tick

SpecKeys == InitKeys /\ [][NextKeys]_vars

\* C36: session-cache keys are injective: a run_script the gate admits on
\* the strength of the session cache has the session, the resolved path and
\* the argument list of the check_script that was allowed, also when two
\* argument lists differ only in how the same characters are split.
C36_KeysInjective ==
    (phase = "done" /\ req.op = "run" /\ resp.gate = "pass")
        => /\ pure.fn = "_record_pref"
           /\ SessionOf(req) = pure.session_id
           /\ Resolve(req.path) = pure.path
           /\ req.args = pure.args


-----------------------------------------------------------------------------
(* Flags of an accepted argument list                                       *)

\* C37: an argument list that _validate_args accepts holds no token that
\* begins with '--' and is outside the allowed flags of TSM_ALLOWED_ARGS,
\* the tokens that follow a value flag such as --host included.
C37_AcceptedFlagsAllowed ==
    (pure.fn = "_validate_args" /\ pure.out = "")
        => \A i \in 1..Len(pure.args) :
              StartsWithDashes(pure.args[i]) => pure.args[i] \in _split_env_list(pure.env)


-----------------------------------------------------------------------------
(* The caller's bearer token (auth_ok, policy.py 37-44)                     *)

\* TSM_TOKEN as configured in this specification
TsmToken == "t0k"

\* the Authorization header of a request: absent, or a scheme and the text
\* after the first blank
NoAuthorization == [scheme |-> "none", cred |-> ""]
Authorizations ==
    {NoAuthorization, [scheme |-> "Bearer", cred |-> TsmToken],
     [scheme |-> "Bearer", cred |-> "wrong"], [scheme |-> "Basic", cred |-> TsmToken]}

\* auth_ok(request) when TSM_TOKEN holds token
auth_ok(token, hdr) ==
    IF token = "" THEN TRUE
    ELSE IF hdr.scheme # "Bearer" THEN FALSE
    ELSE hdr.cred = token

\* JSONResponse({'error': 'unauthorized'}, status_code=401)
Unauthorized == Answer(401, "unauthorized", "", "none", FALSE, FALSE, NoPrep, FALSE, NoToken)

InitAuth ==
    /\ now = 0
    /\ enforce = TRUE
    /\ file = SeedDoc
    /\ prefCache = <<>>
    /\ held = NoToken
    /\ phase = "idle"
    /\ req = NoReq
    /\ resp = NoResp
    /\ loaded = load_state(MissingFile)
    /\ pure = NoPure
    /\ minted = 0
    /\ stream = NoStream
    /\ inflight = {}
    /\ client = NoClient
    /\ servers = NoServers

\* the client's request went out with the Authorization header hdr
Sent(hdr) == [stage |-> "sent", authorization |-> hdr]

\* POST /actions/run_script with Authorization hdr
AuthRunRest(r, hdr) ==
    /\ phase = "idle" /\ r.op = "run" /\ r.via = "rest"
    /\ req' = r /\ client' = Sent(hdr)
    /\ resp' = IF ~auth_ok(TsmToken, hdr) THEN Unauthorized
               ELSE http_run_script(r, prefCache, enforce, file, now)
    /\ phase' = "done"
    /\ UNCHANGED <<now, enforce, file, prefCache, held, loaded, pure, minted, stream, inflight, servers>>

\* GET /sse/run_script_stream with Authorization hdr
AuthRunSse(r, hdr) ==
    /\ phase = "idle" /\ r.op = "run" /\ r.via = "sse"
    /\ req' = r /\ client' = Sent(hdr)
    /\ resp' = IF ~auth_ok(TsmToken, hdr) THEN Unauthorized
               ELSE http_run_script_stream(r, prefCache, enforce, file, now)
    /\ phase' = "done"
    /\ UNCHANGED <<now, enforce, file, prefCache, held, loaded, pure, minted, stream, inflight, servers>>

\* POST /mcp tools/call run_script or check_script with Authorization hdr
AuthMcp(r, hdr) ==
    /\ phase = "idle" /\ r.via = "mcp"
    /\ req' = r /\ client' = Sent(hdr)
    /\ \E out \in {IF ~auth_ok(TsmToken, hdr) THEN [answer |-> Unauthorized, cache |-> prefCache]
                   ELSE IF r.op = "check" THEN mcp_check_script(r, prefCache, file, now)
                   ELSE [answer |-> mcp_run_script(r, prefCache, enforce, file, now),
                         cache |-> prefCache]} :
          resp' = out.answer /\ prefCache' = out.cache
    /\ phase' = "done"
    /\ UNCHANGED <<now, enforce, file, held, loaded, pure, minted, stream, inflight, servers>>

\* POST /actions/check_script with Authorization hdr: the handler does not
\* call auth_ok
AuthCheckRest(r, hdr) ==
    /\ phase = "idle" /\ r.op = "check" /\ r.via = "rest"
    /\ req' = r /\ client' = Sent(hdr)
    /\ \E out \in {http_check_script(r, prefCache, file, now)} :
          resp' = out.answer /\ prefCache' = out.cache
    /\ phase' = "done"
    /\ UNCHANGED <<now, enforce, file, held, loaded, pure, minted, stream, inflight, servers>>

\* the run_script requests of this specification
AuthRuns(h) == {r \in RunRequests(h) : r.path = ScriptA /\ r.sessB = NoSession /\ r.token \in {NoToken, h}}
\* its check_script requests
AuthChecks == {r \in CheckRequests : r.path = ScriptA /\ r.args # <<"--bad">>}

NextAuth ==
    \/ \E r \in AuthRuns(held), hdr \in Authorizations : AuthRunRest(r, hdr)
    \/ \E r \in AuthRuns(held), hdr \in Authorizations : AuthRunSse(r, hdr)
    \/ \E r \in AuthRuns(held) \cup AuthChecks, hdr \in Authorizations : AuthMcp(r, hdr)
    \/ \E r \in AuthChecks, hdr \in Authorizations : AuthCheckRest(r, hdr)
    \/ Reply
    \/ Tick

SpecAuth == InitAuth /\ [][NextAuth]_vars

\* the request answered by this step did not carry the configured token
UnauthenticatedAnswered ==
    phase = "idle" /\ phase' = "done" /\ ~auth_ok(TsmToken, client'.authorization)

\* C38: with TSM_TOKEN configured, a request that does not carry it is
\* issued no preflight token and records no session-cache entry, on any
\* endpoint, and its run_script and MCP requests are answered 401.
C38_NoProofWithoutBearer ==
    [][UnauthenticatedAnswered =>
          /\ resp'.preflightToken = NoToken
          /\ prefCache' = prefCache
          /\ (req'.op = "run" \/ req'.via = "mcp") => resp'.status = 401]_vars


-----------------------------------------------------------------------------
(* Concurrent administrative mutations.  admin_add, admin_remove,           *)
(* admin_session_profile and admin_overlay_remove each suspend at `await    *)
(* request.json()` only; load_state, the mutation and the save run without  *)
(* yielding, so the bodies of the requests in flight run one after another. *)

MaxAdminRequests == 2

\* the policy files the two requests start from
ConcDocs ==
    { MissingFile,
      Doc(JInt(1), Coll("list", <<RuleBaseName>>), Coll("list", <<>>), ProfilesJ),
      Doc(JInt(1), Coll("list", <<PathRuleA(NoExpiry)>>), Coll("list", <<>>), ProfilesJ),
      MultiOverlayDoc }

\* the admin requests in flight: the handler and the body
AdminRequests ==
    {[kind |-> "admin_add", body |-> b] :
        b \in {AddBody("adm", "path", ScriptA, <<>>, <<>>, <<"--smoke">>, <<>>, NoCaps, 0),
               AddBody("adm", "scope", <<>>, AllowedRoot, << <<"*">> >>, <<"--port">>, <<>>, NoCaps, 1)}}
    \cup {[kind |-> "admin_remove", body |-> b] :
            b \in {RemoveBody("adm", "r-base"), RemoveBody("adm", "r-a")}}
    \cup {[kind |-> "admin_session_profile", body |-> b] :
            b \in {ProfileBody("adm", "s1", "tiny", 1, <<>>, <<>>, <<>>)}}
    \cup {[kind |-> "admin_overlay_remove", body |-> b] :
            b \in {RemoveBody("adm", "ovr-1"), RemoveBody("adm", "ovr-2")}}

\* the administrator has sent nothing yet
NoAdmin == [stage |-> "admin", done |-> <<>>]

InitAdminConc ==
    /\ now = 0
    /\ enforce = FALSE
    /\ file \in ConcDocs
    /\ prefCache = <<>>
    /\ held = NoToken
    /\ phase = "idle"
    /\ req = NoReq
    /\ resp = NoResp
    /\ loaded = load_state(MissingFile)
    /\ pure = NoPure
    /\ minted = 0
    /\ stream = NoStream
    /\ inflight = {}
    /\ client = NoAdmin
    /\ servers = NoServers

\* an admin request arrives
AdminArrive(x) ==
    /\ Cardinality(inflight) + Len(client.done) < MaxAdminRequests
    /\ x \notin inflight
    /\ inflight' = inflight \cup {x}
    /\ UNCHANGED <<now, enforce, file, prefCache, held, phase, req, resp, loaded, pure, minted, stream, client, servers>>

\* the administrator learns the answer of x: ok is ok=true in a 200 answer,
\* id the identifier of the rule an add made
Answered(x, ok, id) ==
    [client EXCEPT !.done = Append(@, [kind |-> x.kind, body |-> x.body, ok |-> ok, id |-> id])]

\* the body of admin_add runs for x
ServeAdminAdd(x) ==
    /\ x \in inflight /\ x.kind = "admin_add"
    /\ \E out \in {admin_add(x.body, file, now, minted)} :
          /\ file' = out.file
          /\ client' = Answered(x, out.error = "", NewRuleId(minted))
    /\ minted' = minted + 1
    /\ inflight' = inflight \ {x}
    /\ UNCHANGED <<now, enforce, prefCache, held, phase, req, resp, loaded, pure, stream, servers>>

\* the body of admin_remove runs for x
ServeAdminRemove(x) ==
    /\ x \in inflight /\ x.kind = "admin_remove"
    /\ \E out \in {admin_remove(x.body, file)} :
          /\ file' = out.file
          /\ client' = Answered(x, out.error = "", x.body.id)
    /\ inflight' = inflight \ {x}
    /\ UNCHANGED <<now, enforce, prefCache, held, phase, req, resp, loaded, pure, minted, stream, servers>>

\* the body of admin_session_profile runs for x
ServeAdminSessionProfile(x) ==
    /\ x \in inflight /\ x.kind = "admin_session_profile"
    /\ \E out \in {admin_session_profile(x.body, file, now)} :
          /\ file' = out.file
          /\ client' = Answered(x, out.error = "" /\ ~out.raised, "")
    /\ inflight' = inflight \ {x}
    /\ UNCHANGED <<now, enforce, prefCache, held, phase, req, resp, loaded, pure, minted, stream, servers>>

\* the body of admin_overlay_remove runs for x
ServeAdminOverlayRemove(x) ==
    /\ x \in inflight /\ x.kind = "admin_overlay_remove"
    /\ \E out \in {admin_overlay_remove(x.body, file)} :
          /\ file' = out.file
          /\ client' = Answered(x, out.error = "", x.body.id)
    /\ inflight' = inflight \ {x}
    /\ UNCHANGED <<now, enforce, prefCache, held, phase, req, resp, loaded, pure, minted, stream, servers>>

NextAdminConc ==
    \/ \E x \in AdminRequests : AdminArrive(x)
    \/ \E x \in inflight : ServeAdminAdd(x)
    \/ \E x \in inflight : ServeAdminRemove(x)
    \/ \E x \in inflight : ServeAdminSessionProfile(x)
    \/ \E x \in inflight : ServeAdminOverlayRemove(x)
    \/ Tick

SpecAdminConc == InitAdminConc /\ [][NextAdminConc]_vars

\* the stored policy shows the mutation m
Reflected(m) ==
    IF m.kind = "admin_add" THEN \E i \in 1..Len(DocRules(file)) : DocRules(file)[i].id = m.id
    ELSE IF m.kind = "admin_remove" THEN \A i \in 1..Len(DocRules(file)) : DocRules(file)[i].id # m.id
    ELSE IF m.kind = "admin_overlay_remove" THEN OverlaysWithId(file, m.id) = <<>>
    ELSE \E i \in 1..Len(DocOverlays(file)) : DocOverlays(file)[i].sessionId = m.body.sessionId

\* C39: whatever the interleaving of two concurrent admin requests (rule
\* add, rule remove, overlay assign, overlay remove), the stored policy
\* afterwards reflects both mutations.
C39_NoLostUpdate ==
    (inflight = {} /\ Len(client.done) = MaxAdminRequests)
        => \A i \in 1..Len(client.done) : client.done[i].ok => Reflected(client.done[i])


-----------------------------------------------------------------------------
(* Entries whose expiresAt is not a timestamp                               *)

\* policy files with rules and overlays whose expiresAt is absent, a
\* timestamp, or a text datetime.fromisoformat rejects
ExpiryDocs ==
    { Doc(JInt(1),
          Coll("list", <<RuleJ("r-bad", "path", ScriptA, <<>>, <<>>, <<"--port">>, <<>>, RuleCapsA, BadIso)>>),
          Coll("list", <<SessionWideAt("s1", "tiny", BadIso)>>), ProfilesJ),
      Doc(JInt(1),
          Coll("list", <<RuleJ("r-bad", "path", ScriptA, <<>>, <<>>, <<>>, <<"--smoke">>, RuleCapsA, BadIso),
                         PathRuleA(NoExpiry)>>),
          Coll("list", <<SessionWideAt("s1", "idle", BadIso), SessionWideAt("s1", "large", IsoAt(1400))>>),
          ProfilesJ),
      Doc(JInt(1), Coll("list", <<PathRuleA(IsoAt(700)), RuleScopeAll>>),
          Coll("list", <<SessionWideAt("s1", "tiny", IsoAt(1400))>>), ProfilesJ),
      Doc(JInt(1), Coll("list", <<PathRuleA(NoExpiry)>>),
          Coll("list", <<SessionWideAt("s2", "tiny", BadIso)>>), ProfilesJ) }

InitExpiry ==
    /\ now = 0
    /\ enforce = FALSE
    /\ file \in ExpiryDocs
    /\ prefCache = <<>>
    /\ held = NoToken
    /\ phase = "idle"
    /\ req = NoReq
    /\ resp = NoResp
    /\ loaded = load_state(MissingFile)
    /\ pure = NoPure
    /\ minted = 0
    /\ stream = NoStream
    /\ inflight = {}
    /\ client = NoClient
    /\ servers = NoServers

NextExpiry ==
    \/ \E path \in {ScriptA, AliasA, ScriptB}, args \in PolicyArgs, session_id \in PolicySessions,
          fg \in PolicyGlobals : pure = NoPure /\ EvalPreflight(path, args, session_id, fg)
    \/ \E path \in {ScriptA, AliasA, ScriptB}, session_id \in PolicySessions :
          pure = NoPure /\ ResolveCaps(path, session_id)
    \/ pure = NoPure /\ Tick

SpecExpiry == InitExpiry /\ [][NextExpiry]_vars

\* the expiresAt is present and is not a timestamp
IllFormed(e) == e.t = "bad"

\* the state without the rules and overlays whose expiresAt is ill-formed
WellFormedOnly(st) ==
    [st EXCEPT !.rules = SelectSeq(@, LAMBDA r : ~IllFormed(r.expiresAt)),
               !.overlays = SelectSeq(@, LAMBDA o : ~IllFormed(o.expiresAt))]

\* C40: a rule or overlay whose expiresAt is present but is not a
\* well-formed timestamp is never matched and contributes no flags and no
\* caps: evaluate_preflight and effective_caps_for answer as they do on the
\* policy without such entries.
C40_IllFormedExpiryIgnored ==
    /\ pure.fn = "evaluate_preflight" =>
          /\ pure.out = evaluate_preflight(pure.path, pure.args, pure.session_id, AllowedRoot,
                                           pure.flags_global, WellFormedOnly(load_state(file).state), pure.t)
          /\ pure.eff = EffectiveAllowedFlags(Resolve(pure.path), pure.session_id, pure.flags_global,
                                              WellFormedOnly(load_state(file).state), pure.t)
    /\ pure.fn = "effective_caps_for" =>
          pure.out = effective_caps_for(pure.path, pure.session_id, AllowedRoot,
                                        WellFormedOnly(load_state(file).state), pure.t)

====
